---- MODULE Spec2Model ----
(***************************************************************************)
(* Connection-resilience core of the AIR-assist client.                    *)
(*                                                                         *)
(*  SpecSvc : WebSocketServiceClass (the singleton session manager) with   *)
(*            the WebSocket objects and BackgroundTimer it drives.         *)
(*  SpecApp : AppProvider on top of the useWebSocket hook: the offline     *)
(*            queue (pendingMessages), its replay effect, and its copy in  *)
(*            AsyncStorage across a restart of the process.                *)
(***************************************************************************)
EXTENDS Integers, Sequences, FiniteSets, TLC

(* ------------------------------ bounds --------------------------------- *)
\* WebSocket objects that may be alive (not yet CLOSED) at one time.
MaxLive == 2
\* Payloads one run may hand to WebSocketService.send (pings included).
MaxSends == 2

(* ------------------------- program constants --------------------------- *)
maxReconnectAttempts == 5
InitialReconnectDelay == 2000
MaxReconnectDelay == 30000
CLOSE_NORMAL == 1000
CLOSE_ABNORMAL == 1006

\* Payloads handed to WebSocketService.send: 0 is the ping frame.
PingMsg == 0
SvcMsgs == 0..1
\* event.code of a close event: a clean close, or anything else.
CloseCodes == {CLOSE_NORMAL, CLOSE_ABNORMAL}
\* readyState of a WebSocket that has not closed.
LiveStates == {"CONNECTING", "OPEN", "CLOSING"}

VARIABLES
    ws,             \* the WebSocketService fields, its WebSocket objects and timers
    lastOp,         \* history: the operation the last step ran
    failsSinceOpen, \* history: non-graceful closes handled since the last handleOpen
    failsBeforeOpen,\* history: failsSinceOpen when the last handleOpen ran, -1 if none ran
    graceful,       \* history: disconnect() ran and no connect()/init() was asked since
    app,            \* AppProvider and useWebSocket state, the socket, AsyncStorage
    hist,           \* history of the AppProvider run (see HistFresh)
    home,           \* HomeScreen state and the context values it reads
    conv,           \* AppProvider conversation list and the clock
    bt,             \* useBluetooth state under the store's BluetoothProvider, the adapter, the Store
    ctx,            \* the context BluetoothProvider, BluetoothService and the Store
    hb,             \* the useWebSocket hook's heartbeat: its state, closures, sockets, clock
    prov            \* AppProvider of full-code.js over WebSocketService: the busy flag

vars == <<ws, lastOp, failsSinceOpen, failsBeforeOpen, graceful, app, hist, home, conv, bt, ctx, hb, prov>>
svcVars == <<ws, failsSinceOpen, failsBeforeOpen, graceful>>
appVars == <<app, hist>>
homeVars == <<home>>
convVars == <<conv>>
btVars == <<bt>>
ctxVars == <<ctx>>
hbVars == <<hb>>
provVars == <<prov>>
nonSvcVars == <<appVars, homeVars, convVars, btVars, ctxVars, hbVars, provVars>>
nonAppVars == <<svcVars, homeVars, convVars, btVars, ctxVars, hbVars, provVars>>
nonHomeVars == <<svcVars, appVars, convVars, btVars, ctxVars, hbVars, provVars>>
nonConvVars == <<svcVars, appVars, homeVars, btVars, ctxVars, hbVars, provVars>>
nonBtVars == <<svcVars, appVars, homeVars, convVars, ctxVars, hbVars, provVars>>
nonCtxVars == <<svcVars, appVars, homeVars, convVars, btVars, hbVars, provVars>>
nonHbVars == <<svcVars, appVars, homeVars, convVars, btVars, ctxVars, provVars>>
nonProvVars == <<svcVars, appVars, homeVars, convVars, btVars, ctxVars, hbVars>>

(* ------------------------------ helpers -------------------------------- *)
Min(a, b) == IF a < b THEN a ELSE b

RECURSIVE Pow(_, _)
Pow(b, e) == IF e = 0 THEN 1 ELSE b * Pow(b, e - 1)

\* Math.min(reconnectDelay * Math.pow(1.5, n - 1), 30000); 1.5^k = 3^k / 2^k.
ReconnectDelayFor(base, n) ==
    Min((base * Pow(3, n - 1)) \div Pow(2, n - 1), MaxReconnectDelay)

(* ----------------------- WebSocketServiceClass ------------------------- *)
(* ws.socket is the readyState of the object this.socket refers to, or     *)
(* "null".  ws.orphans counts, per readyState, the WebSocket objects the   *)
(* service built earlier, no longer references, and that have not closed:  *)
(* their onopen/onclose are still bound to the service's handlers.         *)
(* ws.reconnectTimeout is "null", or a handle that is "pending" or "dead"  *)
(* (fired or cleared); ws.timers counts the pending reconnect timeouts.    *)

\* The state right after `new WebSocketServiceClass()`.
SvcConstructed ==
    [ socket            |-> "null",
      url               |-> FALSE,
      isConnected       |-> FALSE,
      isConnecting      |-> FALSE,
      reconnectTimeout  |-> "null",
      reconnectAttempts |-> 0,
      reconnectDelay    |-> InitialReconnectDelay,
      pingInterval      |-> FALSE,
      messageQueue      |-> <<>>,
      orphans           |-> [s \in LiveStates |-> 0],
      timers            |-> 0,
      armedDelay        |-> 0,
      sent              |-> <<>> ]

\* The object this.socket refers to loses that reference.
Unreference(w) ==
    IF w.socket \in LiveStates
    THEN [w EXCEPT !.orphans[w.socket] = @ + 1, !.socket = "null"]
    ELSE [w EXCEPT !.socket = "null"]

\* this.socket = new WebSocket(this.url), with the four handlers bound.
NewWebSocket(w) == [Unreference(w) EXCEPT !.socket = "CONNECTING"]

\* BackgroundTimer.clearTimeout(this.reconnectTimeout)
ClearReconnectTimeout(w) ==
    IF w.reconnectTimeout = "pending"
    THEN [w EXCEPT !.timers = @ - 1, !.reconnectTimeout = "dead"]
    ELSE w

\* connect() without its early return: always builds a socket.
connect_NoGuard(w) ==
    [NewWebSocket(w) EXCEPT !.isConnecting = TRUE]

connect(w) ==
    IF w.isConnected \/ w.isConnecting THEN w
    ELSE IF ~w.url
         THEN [w EXCEPT !.isConnecting = FALSE]
         ELSE [NewWebSocket(w) EXCEPT !.isConnecting = TRUE]

\* this.socket.send(message) throws: no socket, or a socket still connecting.
SocketSendThrows(w) == w.socket \in {"null", "CONNECTING"}

\* this.socket.send(message) when it does not throw: only an open socket transmits.
SocketSend(w, m) ==
    IF w.socket = "OPEN" THEN [w EXCEPT !.sent = Append(@, m)] ELSE w

RECURSIVE processMessageQueue(_)
processMessageQueue(w) ==
    IF ~w.isConnected \/ w.messageQueue = <<>>
    THEN [w |-> w, threw |-> FALSE]
    ELSE LET m  == Head(w.messageQueue)
             w1 == [w EXCEPT !.messageQueue = Tail(@)]
         IN IF SocketSendThrows(w1)
            THEN [w |-> w1, threw |-> TRUE]
            ELSE processMessageQueue(SocketSend(w1, m))

\* handleOpen() that keeps the attempt counter.
handleOpen_NoReset(w) ==
    processMessageQueue([w EXCEPT !.isConnected = TRUE, !.isConnecting = FALSE]).w

handleOpen(w) ==
    processMessageQueue([w EXCEPT !.isConnected = TRUE,
                                  !.isConnecting = FALSE,
                                  !.reconnectAttempts = 0,
                                  !.reconnectDelay = InitialReconnectDelay]).w

\* handleOpen() gets as far as onConnectCallback: processMessageQueue did
\* not throw out of it.
handleOpenCallsBack(w) ==
    ~processMessageQueue([w EXCEPT !.isConnected = TRUE,
                                   !.isConnecting = FALSE,
                                   !.reconnectAttempts = 0,
                                   !.reconnectDelay = InitialReconnectDelay]).threw

\* scheduleReconnect() whose delay grows from the previous delay.
scheduleReconnect_Compounding(w) ==
    LET w1 == IF w.reconnectTimeout # "null" THEN ClearReconnectTimeout(w) ELSE w
    IN IF w1.reconnectAttempts >= maxReconnectAttempts THEN w1
       ELSE LET n == w1.reconnectAttempts + 1
                d == ReconnectDelayFor(w1.reconnectDelay, n)
            IN [w1 EXCEPT !.reconnectAttempts = n,
                          !.reconnectDelay = d,
                          !.armedDelay = d,
                          !.timers = @ + 1,
                          !.reconnectTimeout = "pending"]

\* scheduleReconnect() that does not clear the timeout it replaces.
scheduleReconnect_NoClear(w) ==
    IF w.reconnectAttempts >= maxReconnectAttempts THEN w
    ELSE LET n == w.reconnectAttempts + 1
         IN [w EXCEPT !.reconnectAttempts = n,
                      !.armedDelay = ReconnectDelayFor(w.reconnectDelay, n),
                      !.timers = @ + 1,
                      !.reconnectTimeout = "pending"]

scheduleReconnect(w) ==
    LET w1 == IF w.reconnectTimeout # "null" THEN ClearReconnectTimeout(w) ELSE w
    IN IF w1.reconnectAttempts >= maxReconnectAttempts THEN w1
       ELSE LET n == w1.reconnectAttempts + 1
            IN [w1 EXCEPT !.reconnectAttempts = n,
                          !.armedDelay = ReconnectDelayFor(w1.reconnectDelay, n),
                          !.timers = @ + 1,
                          !.reconnectTimeout = "pending"]

handleClose(w, code) ==
    LET w1 == [w EXCEPT !.isConnected = FALSE, !.isConnecting = FALSE]
    IN IF code # CLOSE_NORMAL THEN scheduleReconnect(w1) ELSE w1

startPingInterval(w) == [w EXCEPT !.pingInterval = TRUE]

\* send(message) without the isConnected test.
send_Unchecked(w, m) ==
    IF SocketSendThrows(w)
    THEN [w EXCEPT !.messageQueue = Append(@, m)]
    ELSE SocketSend(w, m)

\* send(message): the state it leaves.
send(w, m) ==
    IF ~w.isConnected
    THEN connect([w EXCEPT !.messageQueue = Append(@, m)])
    ELSE IF SocketSendThrows(w)
         THEN [w EXCEPT !.messageQueue = Append(@, m)]
         ELSE SocketSend(w, m)

\* send(message): the value it returns.
sendReturns(w) == w.isConnected /\ ~SocketSendThrows(w)

ping(w) == IF w.isConnected THEN send(w, PingMsg) ELSE w

checkConnection(w) ==
    IF ~w.isConnected /\ ~w.isConnecting THEN connect(w) ELSE w

\* this.socket.close(1000, 'Client disconnected'); this.socket = null
CloseAndDrop(w) ==
    Unreference([w EXCEPT !.socket =
                     IF @ \in {"CONNECTING", "OPEN"} THEN "CLOSING" ELSE @])

\* disconnect() that leaves the reconnect timeout alone.
disconnect_KeepsTimer(w) ==
    LET w1 == [w EXCEPT !.pingInterval = FALSE]
        w3 == IF w1.socket # "null" THEN CloseAndDrop(w1) ELSE w1
    IN [w3 EXCEPT !.isConnected = FALSE, !.isConnecting = FALSE]

disconnect(w) ==
    LET w1 == [w EXCEPT !.pingInterval = FALSE]
        w2 == IF w1.reconnectTimeout # "null"
              THEN [ClearReconnectTimeout(w1) EXCEPT !.reconnectTimeout = "null"]
              ELSE w1
        w3 == IF w2.socket # "null" THEN CloseAndDrop(w2) ELSE w2
    IN [w3 EXCEPT !.isConnected = FALSE, !.isConnecting = FALSE]

init(w) == startPingInterval(connect([w EXCEPT !.url = TRUE]))

(* --------------------------- SpecSvc actions --------------------------- *)
LiveCount(w) ==
    (IF w.socket \in LiveStates THEN 1 ELSE 0)
    + w.orphans["CONNECTING"] + w.orphans["OPEN"] + w.orphans["CLOSING"]

SvcFits(w) == LiveCount(w) <= MaxLive
SendsMade(w) == Len(w.sent) + Len(w.messageQueue)
SatInc(n) == Min(n + 1, maxReconnectAttempts + 1)

\* WebSocketService.init(url): after construction or after disconnect().
SvcInit ==
    /\ ws.socket = "null"
    /\ SvcFits(init(ws))
    /\ ws' = init(ws)
    /\ lastOp' = "init"
    /\ UNCHANGED nonSvcVars
    /\ graceful' = FALSE
    /\ UNCHANGED <<failsSinceOpen, failsBeforeOpen>>

SvcConnect ==
    /\ ws.url
    /\ SvcFits(connect(ws))
    /\ ws' = connect(ws)
    /\ lastOp' = "connect"
    /\ UNCHANGED nonSvcVars
    /\ graceful' = FALSE
    /\ UNCHANGED <<failsSinceOpen, failsBeforeOpen>>

SvcCheckConnection ==
    /\ ws.url
    /\ SvcFits(checkConnection(ws))
    /\ ws' = checkConnection(ws)
    /\ lastOp' = "checkConnection"
    /\ UNCHANGED nonSvcVars
    /\ graceful' = FALSE
    /\ UNCHANGED <<failsSinceOpen, failsBeforeOpen>>

SvcSend ==
    \E m \in SvcMsgs \ {PingMsg} :
        /\ ws.url
        /\ SendsMade(ws) < MaxSends
        /\ SvcFits(send(ws, m))
        /\ ws' = send(ws, m)
        /\ lastOp' = "send"
        /\ UNCHANGED nonSvcVars
        /\ graceful' = FALSE
        /\ UNCHANGED <<failsSinceOpen, failsBeforeOpen>>

\* One tick of the 30 s ping interval.
SvcPing ==
    /\ ws.pingInterval
    /\ ws.isConnected
    /\ SendsMade(ws) < MaxSends
    /\ ws' = ping(ws)
    /\ lastOp' = "ping"
    /\ UNCHANGED nonSvcVars
    /\ UNCHANGED <<failsSinceOpen, failsBeforeOpen, graceful>>

SvcDisconnect ==
    /\ ws' = disconnect(ws)
    /\ lastOp' = "disconnect"
    /\ UNCHANGED nonSvcVars
    /\ graceful' = TRUE
    /\ UNCHANGED <<failsSinceOpen, failsBeforeOpen>>

\* A pending reconnect timeout fires: () => this.connect().  The timeout
\* that fires is the one this.reconnectTimeout names, or another pending one.
SvcTimerFire ==
    \E named \in BOOLEAN :
        /\ IF named THEN ws.reconnectTimeout = "pending"
                    ELSE ws.timers > (IF ws.reconnectTimeout = "pending" THEN 1 ELSE 0)
        /\ LET w1 == IF named THEN ClearReconnectTimeout(ws)
                              ELSE [ws EXCEPT !.timers = @ - 1]
           IN /\ SvcFits(connect(w1))
              /\ ws' = connect(w1)
        /\ lastOp' = "timer"
        /\ UNCHANGED nonSvcVars
        /\ UNCHANGED <<failsSinceOpen, failsBeforeOpen, graceful>>

\* The socket this.socket refers to (cur), or an unreferenced one, can open.
CanOpen(w, cur) ==
    IF cur THEN w.socket = "CONNECTING" ELSE w.orphans["CONNECTING"] > 0

\* That socket's readyState becomes OPEN.
Opened(w, cur) ==
    IF cur
    THEN [w EXCEPT !.socket = "OPEN"]
    ELSE [w EXCEPT !.orphans["CONNECTING"] = @ - 1, !.orphans["OPEN"] = @ + 1]

\* A connecting socket opens: socket.onopen -> handleOpen.
SvcSockOpen ==
    \E cur \in BOOLEAN :
        /\ CanOpen(ws, cur)
        /\ ws' = handleOpen(Opened(ws, cur))
        /\ lastOp' = "onopen"
        /\ UNCHANGED nonSvcVars
        /\ failsSinceOpen' = 0
        /\ failsBeforeOpen' = failsSinceOpen
        /\ UNCHANGED graceful

\* A socket closes (handshake failure, drop, server close, or the end of a
\* local close()): socket.onclose -> handleClose(event).
SvcSockClose ==
    \E cur \in BOOLEAN, st \in LiveStates, code \in CloseCodes :
        /\ IF cur THEN ws.socket = st ELSE ws.orphans[st] > 0
        /\ ws' = handleClose(IF cur
                             THEN [ws EXCEPT !.socket = "CLOSED"]
                             ELSE [ws EXCEPT !.orphans[st] = @ - 1],
                             code)
        /\ lastOp' = "onclose"
        /\ UNCHANGED nonSvcVars
        /\ failsSinceOpen' = IF code # CLOSE_NORMAL THEN SatInc(failsSinceOpen)
                             ELSE failsSinceOpen
        /\ UNCHANGED <<failsBeforeOpen, graceful>>

(* ----------------- AppProvider on the useWebSocket hook ----------------- *)
(* State of one mounted AppProvider, of the useWebSocket hook it owns, of   *)
(* the WebSocket the hook holds, and of the PENDING_MESSAGES entry of       *)
(* AsyncStorage.  A render and the effects it triggers are taken together   *)
(* with the event that caused them, except after a close event, where the   *)
(* socket's readyState is CLOSED before the render that shows               *)
(* wsConnected = false.  settings.wsServerUrl keeps its non-empty default;  *)
(* the conversation list (messages) is not part of this specification.      *)

MaxMsgs == 3          \* bound: envelopes the user submits
MaxWrites == 2        \* bound: AsyncStorage.setItem calls in flight at once
MaxRestarts == 1      \* bound: restarts of the process

Range(s) == { s[i] : i \in DOMAIN s }

Occurrences(s, e) == Cardinality({ i \in DOMAIN s : s[i] = e })

\* First render of AppProvider followed by its mount effects: the load effect
\* starts, the connect effect calls connectWs(), the save effect issues
\* savePendingMessages([]).
AppMounted(stored, handed, next, n) ==
    [ isConnected         |-> FALSE,
      isConnecting        |-> TRUE,
      socket              |-> "CONNECTING",
      reconnectTimeoutRef |-> FALSE,
      pendingMessages     |-> <<>>,
      loading             |-> TRUE,
      store               |-> stored,
      writes              |-> << <<>> >>,
      sent                |-> handed,
      nextId              |-> next,
      capture             |-> [active |-> FALSE, wsConnected |-> FALSE, current |-> FALSE],
      appState            |-> "active",
      unseen              |-> 0,    \* envelopes appended at the end of pendingMessages
                                    \* since the render whose replay effect is pending
      restarts            |-> n ]

HistFresh ==
    [ accepted  |-> {},          \* envelopes given to sendTextToServer / sendAudioToServer
      early     |-> {},          \* those of them given before the load effect had finished
      lastSend  |-> [env |-> 0, wsConnected |-> FALSE, ok |-> FALSE],
      atStop    |-> {},          \* envelopes queued and persisted when the process stopped
      enqLog    |-> <<>>,        \* envelopes in the order they were appended to the queue
      replayLog |-> <<>>,        \* envelopes in the order the replay handed them to socket.send
      replayOk  |-> TRUE,        \* every sendMessage call of the replay returned true
      openMark  |-> 0 ]          \* length of enqLog at the last open event

\* useWebSocket.connect as called from the render that is current.
connectWs(a) ==
    IF a.isConnected \/ a.isConnecting
    THEN a
    ELSE [a EXCEPT !.reconnectTimeoutRef = FALSE,
                   !.isConnecting = TRUE,
                   !.socket = "CONNECTING",
                   !.capture.current = FALSE]

\* What useWebSocket.sendMessage returns for a socket in the given readyState.
sendMessageReturns(readyState) == readyState = "OPEN"

sendMessage(a, e, readyState) ==
    IF sendMessageReturns(readyState) THEN [a EXCEPT !.sent = Append(@, e)] ELSE a

savePendingMessages(a) == [a EXCEPT !.writes = Append(@, a.pendingMessages)]

\* setPendingMessages(q) and the save effect of the render it causes.
setPendingMessages(a, q) == savePendingMessages([a EXCEPT !.pendingMessages = q])

\* pendingMessages of the committed render, which the replay effect and the
\* processPendingMessages it calls close over.
RenderedPending(a) == SubSeq(a.pendingMessages, 1, Len(a.pendingMessages) - a.unseen)

\* The replay effect has work: wsConnected && pendingMessages.length > 0.
ReplayDue(a) == a.isConnected /\ RenderedPending(a) # <<>>

\* setPendingMessages(prev => [...prev, e]).  While the replay effect of the
\* committed render is still pending the update is only queued: React runs
\* that effect before the render that applies the update.
appendPendingMessage(a, e) ==
    IF ReplayDue(a)
    THEN [a EXCEPT !.pendingMessages = Append(@, e), !.unseen = @ + 1]
    ELSE setPendingMessages(a, Append(a.pendingMessages, e))

sendTextToServer(a, e, wsConnected, readyState) ==
    IF wsConnected
    THEN sendMessage(a, e, readyState)
    ELSE appendPendingMessage(a, e)

sendAudioToServer(a, e, wsConnected, readyState) ==
    IF wsConnected
    THEN sendMessage(a, e, readyState)
    ELSE appendPendingMessage(a, e)

\* processPendingMessages of the committed render: its setPendingMessages
\* is queued behind the appends the render has not seen and replaces them.
processPendingMessages(a) ==
    IF ~a.isConnected \/ RenderedPending(a) = <<>>
    THEN a
    ELSE LET firstPending == Head(RenderedPending(a))
             remainingPending == Tail(RenderedPending(a))
         IN sendMessage(setPendingMessages([a EXCEPT !.unseen = 0], remainingPending),
                        firstPending, a.socket)

\* A close event was delivered and the render showing it has not run yet.
RenderPending(a) == a.socket = "CLOSED" /\ (a.isConnected \/ a.isConnecting)

\* Event handlers of the user run on the committed render, after its effects.
Settled(a) == ~RenderPending(a) /\ ~ReplayDue(a)

CanWrite(a) == Len(a.writes) < MaxWrites

\* onopen of the hook's socket, the render and the connect effect (a no-op).
AppSockOpen ==
    /\ app.socket = "CONNECTING"
    /\ app' = connectWs([app EXCEPT !.socket = "OPEN", !.isConnected = TRUE, !.isConnecting = FALSE])
    /\ lastOp' = "app_onopen"
    /\ hist' = [hist EXCEPT !.openMark = Len(hist.enqLog)]
    /\ UNCHANGED nonAppVars

\* The transport closes: readyState becomes CLOSED and onclose queues the state
\* updates and arms the reconnect timeout.
AppSockClose ==
    /\ app.socket \in {"CONNECTING", "OPEN"}
    /\ app' = [app EXCEPT !.socket = "CLOSED", !.reconnectTimeoutRef = TRUE]
    /\ lastOp' = "app_onclose"
    /\ UNCHANGED hist
    /\ UNCHANGED nonAppVars

\* The render after onclose and its connect effect, which connects again.
AppRender ==
    /\ RenderPending(app)
    /\ ~ReplayDue(app)
    /\ app' = connectWs([app EXCEPT !.isConnected = FALSE, !.isConnecting = FALSE])
    /\ lastOp' = "app_render"
    /\ UNCHANGED hist
    /\ UNCHANGED nonAppVars

\* The replay effect calls processPendingMessages().
AppReplayEffect ==
    /\ ReplayDue(app)
    /\ CanWrite(app)
    /\ app' = processPendingMessages(app)
    /\ hist' = [hist EXCEPT
           !.lastSend = [env |-> Head(app.pendingMessages), wsConnected |-> TRUE,
                         ok |-> sendMessageReturns(app.socket)],
           !.replayLog = IF sendMessageReturns(app.socket)
                         THEN Append(@, Head(app.pendingMessages)) ELSE @,
           !.replayOk = @ /\ sendMessageReturns(app.socket)]
    /\ lastOp' = "replay"
    /\ UNCHANGED nonAppVars

Submitted(h, a, e, wsConnected, readyState) ==
    [h EXCEPT !.accepted = @ \cup {e},
              !.early = IF a.loading THEN @ \cup {e} ELSE @,
              !.lastSend = [env |-> e, wsConnected |-> wsConnected,
                            ok |-> sendMessageReturns(readyState)],
              !.enqLog = IF wsConnected THEN @ ELSE Append(@, e)]

\* The user submits a text.
AppSendText ==
    /\ Settled(app)
    /\ app.nextId <= MaxMsgs
    /\ CanWrite(app)
    /\ app' = [sendTextToServer(app, app.nextId, app.isConnected, app.socket)
                  EXCEPT !.nextId = @ + 1]
    /\ hist' = Submitted(hist, app, app.nextId, app.isConnected, app.socket)
    /\ lastOp' = "sendText"
    /\ UNCHANGED nonAppVars

\* handleRecording() while recording: it awaits stopRecording(), holding the
\* sendAudioToServer of the render it was created in.
AppHandleRecording ==
    /\ Settled(app)
    /\ ~app.capture.active
    /\ app.nextId <= MaxMsgs
    /\ app' = [app EXCEPT !.capture = [active |-> TRUE, wsConnected |-> app.isConnected,
                                       current |-> TRUE]]
    /\ lastOp' = "handleRecording"
    /\ UNCHANGED hist
    /\ UNCHANGED nonAppVars

\* readyState of the socket the held sendMessage closes over.
CapturedReadyState(a) == IF a.capture.current THEN a.socket ELSE "CLOSED"

\* stopRecording() resolves and handleRecording calls the held sendAudioToServer.
AppSendAudio ==
    /\ app.capture.active
    /\ app.nextId <= MaxMsgs
    /\ CanWrite(app)
    /\ app' = [sendAudioToServer(app, app.nextId, app.capture.wsConnected, CapturedReadyState(app))
                  EXCEPT !.nextId = @ + 1,
                         !.capture = [active |-> FALSE, wsConnected |-> FALSE, current |-> FALSE]]
    /\ hist' = Submitted(hist, app, app.nextId, app.capture.wsConnected, CapturedReadyState(app))
    /\ lastOp' = "sendAudio"
    /\ UNCHANGED nonAppVars

\* The load effect reaches loadPendingMessages() and sets what it read.
AppLoadPending ==
    /\ app.loading
    /\ CanWrite(app)
    /\ app' = setPendingMessages([app EXCEPT !.loading = FALSE, !.unseen = 0], app.store)
    /\ lastOp' = "load"
    /\ UNCHANGED hist
    /\ UNCHANGED nonAppVars

\* AsyncStorage completes the oldest setItem in flight.
AppStoreWrite ==
    /\ app.writes # <<>>
    /\ app' = [app EXCEPT !.store = Head(app.writes), !.writes = Tail(@)]
    /\ lastOp' = "setItem"
    /\ UNCHANGED hist
    /\ UNCHANGED nonAppVars

\* Values of AppState the model delivers ('inactive' is treated by the
\* listener like 'background').
AppStates == {"active", "background"}

\* The AppState 'change' listener of AppProvider, as registered by the render
\* that is current.
handleAppStateChange(a, nextAppState) ==
    LET a1 == IF a.appState = "background" /\ nextAppState = "active" /\ a.isConnected
              THEN connectWs(a)
              ELSE a
    IN  [a1 EXCEPT !.appState = nextAppState]

\* The app goes to the background or comes back to the foreground.
AppStateChange ==
    \E nextAppState \in AppStates \ {app.appState} :
        /\ app' = handleAppStateChange(app, nextAppState)
        /\ lastOp' = "appState"
        /\ UNCHANGED hist
        /\ UNCHANGED nonAppVars

\* The process stops (writes in flight are lost) and the app is launched again.
AppRestart ==
    /\ app.restarts < MaxRestarts
    /\ app' = AppMounted(app.store, app.sent, app.nextId, app.restarts + 1)
    /\ hist' = [hist EXCEPT !.atStop = Range(app.pendingMessages) \cap Range(app.store)]
    /\ lastOp' = "restart"
    /\ UNCHANGED nonAppVars

(* ------------------------------ HomeScreen ------------------------------ *)
(* HomeScreen state (isRecording, isListening), the context values it reads *)
(* (wsConnected, isBluetoothEnabled, connectedDevice, isProcessingAudio,    *)
(* isSpeaking, settings.autoListen), its auto-listen timeout and whether    *)
(* AudioService is recording.  A render and the effects it triggers are     *)
(* taken together with the event that caused them.                          *)

NoAutoStart ==
    [ fired |-> FALSE, wsConnected |-> FALSE, connectedDevice |-> FALSE,
      capturing |-> FALSE, isProcessingAudio |-> FALSE, isSpeaking |-> FALSE ]

HomeMounted ==
    [ autoListen         |-> TRUE,
      wsConnected        |-> FALSE,
      isBluetoothEnabled |-> FALSE,
      connectedDevice    |-> FALSE,
      isProcessingAudio  |-> FALSE,
      isSpeaking         |-> FALSE,
      isRecording        |-> FALSE,
      isListening        |-> FALSE,
      timer              |-> FALSE,       \* the auto-listen timeout is pending
      capturing          |-> FALSE,       \* AudioService is recording
      autoStart          |-> NoAutoStart  \* history: the last start made by the timeout
    ]

\* Condition of the auto-listen effect.
AutoListenDue(h) ==
    h.autoListen /\ ~h.isProcessingAudio /\ ~h.isSpeaking /\ ~h.isRecording /\ h.isListening

AutoListenDeps(h) == <<h.isProcessingAudio, h.isSpeaking, h.isListening>>

\* Condition of the effect that turns listening on.
StartListeningDue(h) ==
    h.autoListen /\ ~h.isListening /\ h.wsConnected /\ h.isBluetoothEnabled /\ h.connectedDevice

StartListeningDeps(h) == <<h.wsConnected, h.isBluetoothEnabled, h.connectedDevice, h.autoListen>>

\* The renders after a state change from old to new and the effects they run:
\* an effect runs when one of its dependencies changed, after the cleanup of
\* its previous run (clearTimeout).
HomeCommit(old, new) ==
    LET listening == new.isListening
                        \/ (StartListeningDeps(old) # StartListeningDeps(new) /\ StartListeningDue(new))
        fin == [new EXCEPT !.isListening = listening]
    IN IF AutoListenDeps(old) # AutoListenDeps(fin)
       THEN [fin EXCEPT !.timer = AutoListenDue(fin)]
       ELSE fin

\* handleStartRecording() of a render in which isRecording, isProcessingAudio
\* and isSpeaking had the given values, up to its await: the state it leaves
\* and whether it went on to AudioService.startRecording.
handleStartRecording(h, isRecording, isProcessingAudio, isSpeaking) ==
    IF isRecording \/ isProcessingAudio \/ isSpeaking
    THEN [h |-> h, began |-> FALSE]
    ELSE [h |-> [h EXCEPT !.isRecording = TRUE], began |-> TRUE]

\* AudioService.startRecording resolves (started) or throws.
startRecordingSettles(h, began, started) ==
    IF ~began THEN h
    ELSE IF started THEN [h EXCEPT !.capturing = TRUE]
         ELSE [h EXCEPT !.isRecording = FALSE]

\* handleStopRecording() of the current render.
handleStopRecording(h) ==
    IF ~h.isRecording THEN h ELSE [h EXCEPT !.isRecording = FALSE, !.capturing = FALSE]

toggleListening(h) ==
    IF h.isListening
    THEN [h |-> [h EXCEPT !.isListening = FALSE], began |-> FALSE]
    ELSE LET h1 == [h EXCEPT !.isListening = TRUE]
         IN IF ~h.isRecording /\ ~h.isProcessingAudio /\ ~h.isSpeaking
            THEN handleStartRecording(h1, h.isRecording, h.isProcessingAudio, h.isSpeaking)
            ELSE [h |-> h1, began |-> FALSE]

\* The session opens or closes.
HomeSessionChange ==
    /\ home' = HomeCommit(home, [home EXCEPT !.wsConnected = ~@])
    /\ lastOp' = "home_session"
    /\ UNCHANGED nonHomeVars

\* The Bluetooth adapter is switched on or off.
HomeAdapterChange ==
    /\ home' = HomeCommit(home, [home EXCEPT !.isBluetoothEnabled = ~@])
    /\ lastOp' = "home_adapter"
    /\ UNCHANGED nonHomeVars

\* A peripheral connects or disconnects.
HomePeripheralChange ==
    /\ home' = HomeCommit(home, [home EXCEPT !.connectedDevice = ~@])
    /\ lastOp' = "home_peripheral"
    /\ UNCHANGED nonHomeVars

\* Recognition or playback starts or ends.
HomeProcessingChange ==
    /\ home' = HomeCommit(home, [home EXCEPT !.isProcessingAudio = ~@])
    /\ lastOp' = "home_processing"
    /\ UNCHANGED nonHomeVars

\* The assistant starts or stops speaking.
HomeSpeakingChange ==
    /\ home' = HomeCommit(home, [home EXCEPT !.isSpeaking = ~@])
    /\ lastOp' = "home_speaking"
    /\ UNCHANGED nonHomeVars

\* The user switches the auto-listen setting.
HomeSettingsChange ==
    /\ home' = HomeCommit(home, [home EXCEPT !.autoListen = ~@])
    /\ lastOp' = "home_settings"
    /\ UNCHANGED nonHomeVars

\* The user presses the listen button.
HomeToggleListening ==
    \E started \in BOOLEAN :
        /\ LET r == toggleListening(home)
           IN home' = startRecordingSettles(HomeCommit(home, r.h), r.began, started)
        /\ lastOp' = "toggleListening"
        /\ UNCHANGED nonHomeVars

\* The user presses the record button (disabled while processing or speaking).
HomeRecordButton ==
    \E started \in BOOLEAN :
        /\ ~home.isProcessingAudio /\ ~home.isSpeaking
        /\ home' = IF home.isRecording
                   THEN HomeCommit(home, handleStopRecording(home))
                   ELSE LET r == handleStartRecording(home, home.isRecording,
                                                      home.isProcessingAudio, home.isSpeaking)
                        IN startRecordingSettles(HomeCommit(home, r.h), r.began, started)
        /\ lastOp' = "recordButton"
        /\ UNCHANGED nonHomeVars

\* The auto-listen timeout fires: handleStartRecording() of the render that
\* armed it, in which isRecording, isProcessingAudio and isSpeaking were false.
HomeAutoListenTimer ==
    \E started \in BOOLEAN :
        /\ home.timer
        /\ LET r == handleStartRecording([home EXCEPT !.timer = FALSE], FALSE, FALSE, FALSE)
               h1 == startRecordingSettles(HomeCommit(home, r.h), r.began, started)
           IN home' = IF r.began /\ started
                      THEN [h1 EXCEPT !.autoStart =
                               [ fired |-> TRUE, wsConnected |-> home.wsConnected,
                                 connectedDevice |-> home.connectedDevice,
                                 capturing |-> home.capturing,
                                 isProcessingAudio |-> home.isProcessingAudio,
                                 isSpeaking |-> home.isSpeaking ]]
                      ELSE h1
        /\ lastOp' = "autoListenTimer"
        /\ UNCHANGED nonHomeVars

(* --------------------- AppProvider conversation list -------------------- *)
(* The messages list of AppProvider and the millisecond clock Date.now()    *)
(* that addMessage takes its default id from.  Texts are named by kind.     *)

MaxEntries == 4       \* bound: entries in the conversation
MaxClock == 3         \* bound: milliseconds the clock advances

\* History kept in the state that follows a server message only.
NoServerMessage == [before |-> <<>>, messageId |-> 0, transcription |-> FALSE]

\* First render of AppProvider: the load effect has started and has not
\* reached loadConversationHistory() yet; history is what the Store holds.
ConvOpened ==
    [ messages |-> <<>>,
      now      |-> 1,
      last     |-> NoServerMessage,
      loading  |-> TRUE,
      history  |-> <<>> ]

\* What the Store can hold at launch: nothing, or an entry of an earlier run
\* (its id is a time before this run's clock).
StoredHistories ==
    { <<>>, << [id |-> 0, text |-> "text", isUser |-> TRUE, type |-> "normal"] >> }

\* Date.now() read again later in the same synchronous run: the same
\* millisecond or the next.
LaterNow(now) == { t \in now..(now + 1) : t <= MaxClock }

\* addMessage(text, isUser, type) with id = Date.now().toString().
addMessage(messages, text, isUser, type, now) ==
    Append(messages, [id |-> now, text |-> text, isUser |-> isUser, type |-> type])

\* setMessages(prev => prev.map(msg => msg.id === id ? {...msg, text} : msg))
setTextWhereId(messages, id, text) ==
    [ i \in DOMAIN messages |->
        IF messages[i].id = id THEN [messages[i] EXCEPT !.text = text] ELSE messages[i] ]

\* The conversation part of sendTextToServer(text).
convSendText(messages, wsConnected, now, later) ==
    LET m1 == addMessage(messages, "text", TRUE, "normal", now)
    IN IF wsConnected THEN m1
       ELSE addMessage(m1, "offline notice", FALSE, "system", later)

\* The conversation part of sendAudioToServer(audioBase64, transcription).
convSendAudio(messages, wsConnected, hasTranscription, now, later) ==
    LET m1 == addMessage(messages, IF hasTranscription THEN "transcription" ELSE "Listening...",
                         TRUE, "normal", now)
    IN IF wsConnected THEN m1
       ELSE addMessage(
                setTextWhereId(m1, now, IF hasTranscription THEN "transcription" ELSE "saved notice"),
                "offline notice", FALSE, "system", later)

\* handleMessage(data) of the WebSocket message callback.
handleMessage(messages, type, messageId, hasTranscription, now) ==
    IF type = "aiResponse"
    THEN addMessage(
             IF hasTranscription /\ messageId # 0
             THEN setTextWhereId(messages, messageId, "server transcription")
             ELSE messages,
             "ai text", FALSE, "normal", now)
    ELSE IF type = "error"
         THEN addMessage(messages, "error text", FALSE, "system", now)
         ELSE messages

\* A millisecond passes.
ConvTick ==
    /\ conv.now < MaxClock
    /\ conv' = [conv EXCEPT !.now = @ + 1, !.last = NoServerMessage]
    /\ lastOp' = "tick"
    /\ UNCHANGED nonConvVars

ConvSendText ==
    \E wsConnected \in BOOLEAN, later \in LaterNow(conv.now) :
        /\ Len(conv.messages) + 2 <= MaxEntries
        /\ conv' = [conv EXCEPT !.messages = convSendText(@, wsConnected, conv.now, later),
                                !.now = later,
                                !.last = NoServerMessage]
        /\ lastOp' = "conv_sendText"
        /\ UNCHANGED nonConvVars

ConvSendAudio ==
    \E wsConnected \in BOOLEAN, hasTranscription \in BOOLEAN, later \in LaterNow(conv.now) :
        /\ Len(conv.messages) + 2 <= MaxEntries
        /\ conv' = [conv EXCEPT
               !.messages = convSendAudio(@, wsConnected, hasTranscription, conv.now, later),
               !.now = later,
               !.last = NoServerMessage]
        /\ lastOp' = "conv_sendAudio"
        /\ UNCHANGED nonConvVars

\* The server delivers a message: an aiResponse or an error.
ConvServerMessage ==
    \E type \in {"aiResponse", "error"}, messageId \in 0..MaxClock, hasTranscription \in BOOLEAN :
        /\ Len(conv.messages) + 1 <= MaxEntries
        /\ conv' = [conv EXCEPT
               !.messages = handleMessage(@, type, messageId, hasTranscription, conv.now),
               !.last = [before |-> conv.messages, messageId |-> messageId,
                         transcription |-> hasTranscription]]
        /\ lastOp' = type
        /\ UNCHANGED nonConvVars

\* The load effect: savedMessages = await storage.loadConversationHistory();
\* setMessages(savedMessages).
ConvLoadHistory ==
    /\ conv.loading
    /\ conv' = [conv EXCEPT !.messages = conv.history,
                            !.loading = FALSE,
                            !.last = NoServerMessage]
    /\ lastOp' = "loadHistory"
    /\ UNCHANGED nonConvVars

\* clearConversation()
ConvClear ==
    /\ conv.messages # <<>>
    /\ conv' = [conv EXCEPT !.messages = <<>>, !.last = NoServerMessage]
    /\ lastOp' = "clearConversation"
    /\ UNCHANGED nonConvVars

(* ------------- useBluetooth under the store's BluetoothProvider --------- *)
\* src/hooks/useBluetooth.js and src/store/BluetoothContext.js.  bt holds the
\* hook's React state, the BleManager (its running scan, the connects it has
\* in flight), the timeouts startScan armed, the Store's device list and the
\* Store reads of the provider's load effect that have not continued yet.
\* A device is its id; null is 0.  discoveredDevices is read by membership
\* only (some/find on id), so it is kept as a set; previousDevices and the
\* Store keep their order.  A function that closes over a render reads that
\* render's state from its argument c.

MaxDevices == 3
MaxScans == 1
MaxConnecting == 1
MaxBtRestarts == 1
MaxLoads == 2
MaxHistory == 10

Devices == 1..MaxDevices

Take(s, n) == SubSeq(s, 1, Min(n, Len(s)))

Without(s, id) == SelectSeq(s, LAMBDA x : x # id)

\* The hook's state at mount, over a Store that holds `stored`.
\* History fields: launchStore (the Store at this launch), launchAttempt
\* (bleManager.connectToDevice was called for the first record of
\* launchStore since this launch), connected
\* (a connect succeeded since this launch), settled (the id whose connect the
\* last step completed with success, 0 otherwise) and settledAt (the place
\* that id had in previousDevices before that step, 0 if it had none).
BtMounted(stored, n) ==
    [ isBluetoothEnabled |-> FALSE,
      isInitialized      |-> FALSE,
      isScanning         |-> FALSE,
      discoveredDevices  |-> {},
      connectionState    |-> "DISCONNECTED",
      connectedDevice    |-> 0,
      previousDevices    |-> <<>>,
      initializeRan      |-> FALSE,
      adapterScanning    |-> FALSE,
      scanTimeouts       |-> <<>>,
      connecting         |-> {},
      loads              |-> <<>>,
      store              |-> stored,
      restarts           |-> n,
      launchStore        |-> stored,
      launchAttempt      |-> FALSE,
      connected          |-> FALSE,
      settled            |-> 0,
      settledAt          |-> 0 ]

\* stopScan of a render whose isScanning and connectedDevice are given.
stopScan(b, isScanning, connectedDevice) ==
    IF ~isScanning
    THEN b
    ELSE [b EXCEPT !.adapterScanning = FALSE,
                   !.isScanning = FALSE,
                   !.connectionState = IF connectedDevice # 0 THEN "CONNECTED"
                                       ELSE "DISCONNECTED"]

\* connectToDevice of render c, up to its await of bleManager.connectToDevice.
connectToDevice(b, c, deviceId) ==
    IF ~c.isBluetoothEnabled \/ ~c.isInitialized
    THEN b
    ELSE LET b1 == [b EXCEPT !.connectionState = "CONNECTING"]
             b2 == IF c.isScanning
                   THEN stopScan(b1, c.isScanning, c.connectedDevice)
                   ELSE b1
         IN  IF deviceId \notin (c.discoveredDevices \cup Range(c.previousDevices))
             THEN [b2 EXCEPT !.connectionState = "ERROR"]
             ELSE [b2 EXCEPT !.connecting = @ \cup {deviceId},
                             !.launchAttempt = @ \/ <<deviceId>> = Take(b.launchStore, 1)]

\* The updater connectToDevice hands to setPreviousDevices.
\* saveToHistory_AtEnd appends the device instead of putting it first.
saveToHistory_AtEnd(prevDevices, device) ==
    Take(Without(prevDevices, device) \o <<device>>, MaxHistory)

saveToHistory(prevDevices, device) ==
    Take(<<device>> \o Without(prevDevices, device), MaxHistory)

\* The place of id in s, 0 if it has none.
IndexOf(s, id) ==
    IF id \in Range(s) THEN CHOOSE i \in DOMAIN s : s[i] = id ELSE 0

\* connectToDevice after its awaits: the adapter connected, or threw.
connectSettles(b, device, ok) ==
    IF ok
    THEN [b EXCEPT !.connectedDevice = device,
                   !.connectionState = "CONNECTED",
                   !.previousDevices = saveToHistory(@, device),
                   !.connected = TRUE,
                   !.settled = device,
                   !.settledAt = IndexOf(b.previousDevices, device)]
    ELSE [b EXCEPT !.connectionState = "ERROR"]

\* What connectToDevice and the stopScan it calls close over.
Closure(b) ==
    [ isBluetoothEnabled |-> b.isBluetoothEnabled,
      isInitialized      |-> b.isInitialized,
      isScanning         |-> b.isScanning,
      discoveredDevices  |-> b.discoveredDevices,
      previousDevices    |-> b.previousDevices,
      connectedDevice    |-> b.connectedDevice ]

\* The closure of the load effect's continuation, which looks up one id
\* only: the lists of the render are kept as far as that id goes.
LoadClosure(b, deviceId) ==
    [Closure(b) EXCEPT !.discoveredDevices = @ \cap {deviceId},
                       !.previousDevices = SelectSeq(@, LAMBDA x : x = deviceId)]

\* loadPreviousDevices of render c after its await: devices is what
\* storage.loadBluetoothDevices() read.
loadPreviousDevices(b, c, devices) ==
    IF c.isBluetoothEnabled /\ c.isInitialized /\ Len(devices) > 0
    THEN connectToDevice(b, c, devices[1])
    ELSE b

\* The provider's save effect.
savePreviousDevices(old, new) ==
    IF new.previousDevices # old.previousDevices /\ Len(new.previousDevices) > 0
    THEN [new EXCEPT !.store = new.previousDevices]
    ELSE new

\* A render from state old to state new runs the provider's two effects in
\* order.  The load effect runs when isInitialized holds and the identity of
\* connectToDevice changed, that is when one of its dependencies (stopScan's
\* included) did; its read is issued to the Store before the save effect's
\* write, so it returns the list stored before it.  A read that returns an
\* empty list continues to nothing and is not kept.
BtCommit(old, new) ==
    savePreviousDevices(old,
        IF new.isInitialized /\ Closure(new) # Closure(old) /\ Len(new.store) > 0
        THEN [new EXCEPT !.loads = Append(@, [c |-> LoadClosure(new, new.store[1]),
                                              devices |-> new.store])]
        ELSE new)

\* initialize(), called by the hook's mount effect.
initialize(b, hasPermissions, enabled) ==
    IF ~hasPermissions
    THEN [b EXCEPT !.initializeRan = TRUE, !.connectionState = "ERROR"]
    ELSE [b EXCEPT !.initializeRan = TRUE,
                   !.isBluetoothEnabled = enabled,
                   !.isInitialized = enabled]

\* startScan of render c; its timeout and its scan callback close over c.
startScan(b, c) ==
    IF ~c.isBluetoothEnabled \/ ~c.isInitialized
    THEN b
    ELSE IF c.isScanning
    THEN b
    ELSE [b EXCEPT !.discoveredDevices = {},
                   !.isScanning = TRUE,
                   !.connectionState = "SCANNING",
                   !.adapterScanning = TRUE,
                   !.scanTimeouts = Append(@, c.isScanning)]

\* The callback of the timeout startScan armed: isScanning is the value the
\* startScan that armed it closed over.
scanTimeout(b, isScanning) ==
    IF isScanning THEN stopScan(b, isScanning, b.connectedDevice) ELSE b

\* disconnectFromDevice(connectedDevice.id) through the provider.
disconnectFromDevice(b) ==
    IF b.connectedDevice = 0
    THEN b
    ELSE [b EXCEPT !.connectedDevice = 0, !.connectionState = "DISCONNECTED"]

Unsettled(b) == [b EXCEPT !.settled = 0, !.settledAt = 0]

(* ---------------------------- SpecBt actions ---------------------------- *)

BtInitialize ==
    /\ ~bt.initializeRan
    /\ \E hasPermissions \in BOOLEAN, enabled \in BOOLEAN :
         bt' = BtCommit(bt, initialize(Unsettled(bt), hasPermissions, enabled))
    /\ Len(bt'.loads) <= MaxLoads
    /\ lastOp' = "initialize"
    /\ UNCHANGED nonBtVars

BtStartScan ==
    /\ bt.initializeRan
    /\ Len(bt.scanTimeouts) < MaxScans
    /\ bt' = BtCommit(bt, startScan(Unsettled(bt), bt))
    /\ Len(bt'.loads) <= MaxLoads
    /\ lastOp' = "startScan"
    /\ UNCHANGED nonBtVars

\* The adapter reports a named device to the scan callback.
BtScanResult ==
    /\ bt.adapterScanning
    /\ \E device \in Devices :
         bt' = BtCommit(bt, [Unsettled(bt) EXCEPT !.discoveredDevices = @ \cup {device}])
    /\ Len(bt'.loads) <= MaxLoads
    /\ lastOp' = "scanResult"
    /\ UNCHANGED nonBtVars

\* The adapter reports an error to the scan callback, which calls the
\* stopScan startScan closed over.
BtScanError ==
    /\ bt.adapterScanning
    /\ bt' = BtCommit(bt, stopScan(Unsettled(bt), FALSE, bt.connectedDevice))
    /\ Len(bt'.loads) <= MaxLoads
    /\ lastOp' = "scanError"
    /\ UNCHANGED nonBtVars

\* The 10 s timeout of the oldest startScan fires.
BtScanTimeout ==
    /\ bt.scanTimeouts # <<>>
    /\ bt' = BtCommit(bt, scanTimeout([Unsettled(bt) EXCEPT !.scanTimeouts = Tail(@)],
                                      Head(bt.scanTimeouts)))
    /\ Len(bt'.loads) <= MaxLoads
    /\ lastOp' = "scanTimeout"
    /\ UNCHANGED nonBtVars

BtStopScan ==
    /\ bt.initializeRan
    /\ bt' = BtCommit(bt, stopScan(Unsettled(bt), bt.isScanning, bt.connectedDevice))
    /\ Len(bt'.loads) <= MaxLoads
    /\ lastOp' = "stopScan"
    /\ UNCHANGED nonBtVars

BtConnectToDevice ==
    /\ bt.initializeRan
    /\ \E deviceId \in Devices :
         bt' = BtCommit(bt, connectToDevice(Unsettled(bt), bt, deviceId))
    /\ Cardinality(bt'.connecting) <= MaxConnecting
    /\ Len(bt'.loads) <= MaxLoads
    /\ lastOp' = "connectToDevice"
    /\ UNCHANGED nonBtVars

BtConnectSettles ==
    /\ \E device \in bt.connecting, ok \in BOOLEAN :
         bt' = BtCommit(bt, connectSettles([Unsettled(bt) EXCEPT !.connecting = @ \ {device}],
                                           device, ok))
    /\ Len(bt'.loads) <= MaxLoads
    /\ lastOp' = "connectSettles"
    /\ UNCHANGED nonBtVars

BtDisconnectFromDevice ==
    /\ bt.connectedDevice # 0
    /\ bt' = BtCommit(bt, disconnectFromDevice(Unsettled(bt)))
    /\ Len(bt'.loads) <= MaxLoads
    /\ lastOp' = "disconnectFromDevice"
    /\ UNCHANGED nonBtVars

\* The oldest pending read of the load effect continues.
BtLoadPreviousDevices ==
    /\ bt.loads # <<>>
    /\ LET l == Head(bt.loads)
       IN  bt' = BtCommit(bt, loadPreviousDevices([Unsettled(bt) EXCEPT !.loads = Tail(@)],
                                                   l.c, l.devices))
    /\ Cardinality(bt'.connecting) <= MaxConnecting
    /\ Len(bt'.loads) <= MaxLoads
    /\ lastOp' = "loadPreviousDevices"
    /\ UNCHANGED nonBtVars

\* The process is killed and the app launched again: only the Store survives.
BtRestart ==
    /\ bt.restarts < MaxBtRestarts
    /\ bt' = BtMounted(bt.store, bt.restarts + 1)
    /\ lastOp' = "restart"
    /\ UNCHANGED nonBtVars

(* ---------------- the context BluetoothProvider's connect --------------- *)
\* src/context/BluetoothContext.js over BluetoothServiceClass.connect
\* (src/services/AudioService.js).  ctx holds the provider's React state,
\* the Store's device list, the pending auto-connect timeout and one record
\* per connect request: the device, the connectAttempts and savedDevices its
\* connectToDevice closed over, and where the request stands; a request that
\* ended (connected, or failed for good) is dropped.

MaxRequests == 1
MaxAttempts == 5
MaxCtxDevices == 2    \* bound: peripherals the user can pick in the provider
MaxOverlap == 1       \* bound: connectAttempts up to which an overlapping request starts
MaxCtxScans == 2      \* bound: startScan calls of the provider
maxRetries == 3
ConnectAttemptsLimit == 3

CtxDevices == 1..MaxCtxDevices

\* The state at mount, over a Store that holds `stored`.
CtxMounted(stored, n) ==
    [ isBluetoothEnabled |-> FALSE,
      connectionState    |-> "disconnected",
      connectedDevice    |-> 0,
      connectAttempts    |-> 0,
      savedDevices       |-> <<>>,
      initRan            |-> FALSE,
      autoConnect        |-> 0,
      requests           |-> <<>>,
      links              |-> {},     \* keys of BluetoothService.connectedDevices
      isScanning         |-> FALSE,
      devices            |-> {},     \* ids of the devices state
      scanTimeouts       |-> <<>>,   \* pending 10 s timeouts of startScan, oldest first:
                                     \* whether the devices each closed over is empty
      adapterScan        |-> FALSE,  \* BleManager is scanning
      serviceTimeout     |-> FALSE,  \* BluetoothService.scanTimeout is pending
      scans              |-> 0,
      store              |-> stored,
      restarts           |-> n ]

\* BluetoothService.connect(deviceId): results[k] tells whether the adapter's
\* k-th attempt connects.  TRUE when it returns true, FALSE when it throws.
RECURSIVE connectLoop(_, _)
connectLoop(results, retryCount) ==
    IF retryCount >= maxRetries
    THEN FALSE
    ELSE IF results[retryCount + 1]
    THEN TRUE
    ELSE IF retryCount + 1 >= maxRetries
    THEN FALSE
    ELSE connectLoop(results, retryCount + 1)

BluetoothServiceConnect(results) == connectLoop(results, 0)

\* find(device => device.lastConnected): the id, 0 when none.
LastConnectedDevice(devices) ==
    LET marked == { i \in DOMAIN devices : devices[i].lastConnected }
    IN  IF marked = {} THEN 0
        ELSE devices[CHOOSE i \in marked : \A j \in marked : i <= j].id

\* updatedSavedDevices that keeps the lastConnected flags it finds.
updatedSavedDevices_KeepsFlags(savedDevices, device) ==
    LET marked == [ i \in DOMAIN savedDevices |->
                      [ id |-> savedDevices[i].id,
                        lastConnected |-> savedDevices[i].lastConnected
                                              \/ savedDevices[i].id = device ] ]
    IN  IF \E i \in DOMAIN savedDevices : savedDevices[i].id = device
        THEN marked
        ELSE Append(marked, [ id |-> device, lastConnected |-> TRUE ])

\* updatedSavedDevices of connectToDevice, from the savedDevices it closed over.
updatedSavedDevices(savedDevices, device) ==
    LET marked == [ i \in DOMAIN savedDevices |->
                      [ id |-> savedDevices[i].id,
                        lastConnected |-> savedDevices[i].id = device ] ]
    IN  IF \E i \in DOMAIN savedDevices : savedDevices[i].id = device
        THEN marked
        ELSE Append(marked, [ id |-> device, lastConnected |-> TRUE ])

\* setSavedDevices followed by the save effect.
setSavedDevices(c, devices) ==
    IF devices = c.savedDevices
    THEN c
    ELSE [c EXCEPT !.savedDevices = devices, !.store = devices]

\* A call of connectToDevice up to its await: request r makes one more attempt.
ctxConnectToDevice(c, r) ==
    [c EXCEPT !.connectionState = "connecting",
              !.connectAttempts = @ + 1,
              !.requests[r].attempts = @ + 1,
              !.requests[r].phase = "connecting"]

\* A new request for `device`, with the closure of the render it is made from.
NewRequest(device, connectAttempts, savedDevices) ==
    [ device |-> device, connectAttempts |-> connectAttempts,
      savedDevices |-> savedDevices, attempts |-> 0, phase |-> "new" ]

\* connectToDevice after BluetoothService.connect settled.
ctxConnectSettles(c, r, connected) ==
    LET q == c.requests[r]
        ended == [ i \in 1..(Len(c.requests) - 1) |->
                     IF i < r THEN c.requests[i] ELSE c.requests[i + 1] ]
    IN  IF connected
        THEN setSavedDevices([c EXCEPT !.connectedDevice = q.device,
                                       !.connectionState = "connected",
                                       !.links = @ \cup {q.device},
                                       !.requests = ended],
                             updatedSavedDevices(q.savedDevices, q.device))
        ELSE IF q.connectAttempts < ConnectAttemptsLimit
        THEN [c EXCEPT !.connectionState = "error",
                       !.requests[r].phase = "retryArmed"]
        ELSE [c EXCEPT !.connectionState = "error",
                       !.connectAttempts = 0,
                       !.requests = ended]

\* initBluetooth and the mount-time save effect.  The save effect issues its
\* write of [] at mount and initBluetooth issues its read after two awaits;
\* saveFirst tells whether the read sees that write.
initBluetooth(c, poweredOn, saveFirst) ==
    LET stored == IF saveFirst THEN <<>> ELSE c.store
        last == LastConnectedDevice(stored)
    IN  [c EXCEPT !.initRan = TRUE,
                  !.isBluetoothEnabled = poweredOn,
                  !.savedDevices = stored,
                  !.store = stored,
                  !.autoConnect = IF last # 0 /\ poweredOn THEN last ELSE 0]

\* disconnectDevice(): disconnected tells whether BluetoothService.disconnect
\* returns; when it throws, the catch leaves connectedDevice as it is.
disconnectDevice(c, disconnected) ==
    IF c.connectedDevice # 0 /\ disconnected
    THEN [c EXCEPT !.connectedDevice = 0, !.connectionState = "disconnected",
                   !.links = @ \ {c.connectedDevice}]
    ELSE c

\* The BleManagerDisconnectPeripheral listener of BluetoothService.
onDisconnectPeripheral(c, peripheral) == [c EXCEPT !.links = @ \ {peripheral}]

\* forgetDevice(deviceId), with the save effect its setSavedDevices triggers.
forgetDevice(c, deviceId, disconnected) ==
    LET c1 == IF c.connectedDevice # 0 /\ c.connectedDevice = deviceId
              THEN disconnectDevice(c, disconnected)
              ELSE c
    IN  setSavedDevices(c1, SelectSeq(c1.savedDevices, LAMBDA x : x.id # deviceId))

\* BluetoothService.stopScan()
serviceStopScan(c) == [c EXCEPT !.serviceTimeout = FALSE, !.adapterScan = FALSE]

\* BluetoothService.startScan(discoveryCallback)
serviceStartScan(c) == [serviceStopScan(c) EXCEPT !.adapterScan = TRUE, !.serviceTimeout = TRUE]

\* startScan() of the provider, from the render that is current.
ctxStartScan(c) ==
    IF ~c.isBluetoothEnabled
    THEN c
    ELSE [serviceStartScan(c) EXCEPT
              !.isScanning = TRUE,
              !.connectionState = "scanning",
              !.devices = {},
              !.scanTimeouts = Append(@, c.devices = {})]

\* The 10 s timeout of a startScan call fires.
ctxScanTimeout(c) ==
    [serviceStopScan(c) EXCEPT
         !.isScanning = FALSE,
         !.connectionState = IF Head(c.scanTimeouts) THEN "no_devices_found"
                             ELSE "devices_found",
         !.scanTimeouts = Tail(@)]

\* The ids of the records of a device list.
DeviceIds(devices) == { devices[i].id : i \in DOMAIN devices }

(* ---------------------------- SpecCtx actions --------------------------- *)

CtxInitBluetooth ==
    /\ ~ctx.initRan
    /\ \E poweredOn \in BOOLEAN, saveFirst \in BOOLEAN :
         ctx' = initBluetooth(ctx, poweredOn, saveFirst)
    /\ lastOp' = "initBluetooth"
    /\ UNCHANGED nonCtxVars

\* The 1 s timeout of initBluetooth calls the connectToDevice of the mount
\* render: connectAttempts 0, savedDevices [].
CtxAutoConnect ==
    /\ ctx.autoConnect # 0
    /\ Len(ctx.requests) < MaxRequests
    /\ LET c == [ctx EXCEPT !.autoConnect = 0,
                            !.requests = Append(@, NewRequest(ctx.autoConnect, 0, <<>>))]
       IN  ctx' = ctxConnectToDevice(c, Len(c.requests))
    /\ lastOp' = "autoConnect"
    /\ UNCHANGED nonCtxVars

\* The user picks a device: connectToDevice of the current render.
CtxConnectToDevice ==
    /\ ctx.initRan
    /\ Len(ctx.requests) < MaxRequests
    /\ ctx.connectAttempts < MaxAttempts
    /\ \E device \in CtxDevices :
         LET c == [ctx EXCEPT !.requests =
                      Append(@, NewRequest(device, ctx.connectAttempts, ctx.savedDevices))]
         IN  ctx' = ctxConnectToDevice(c, Len(c.requests))
    /\ lastOp' = "ctxConnectToDevice"
    /\ UNCHANGED nonCtxVars

\* The user picks a device, or the auto-connect timeout fires, while
\* another connectToDevice is still awaiting the adapter or its retry.
CtxOverlappingConnect ==
    /\ ctx.initRan
    /\ ctx.requests # <<>>
    /\ Len(ctx.requests) <= MaxRequests
    /\ ctx.connectAttempts <= MaxOverlap
    /\ \/ \E device \in CtxDevices :
            LET c == [ctx EXCEPT !.requests =
                         Append(@, NewRequest(device, ctx.connectAttempts, ctx.savedDevices))]
            IN  ctx' = ctxConnectToDevice(c, Len(c.requests))
       \/ /\ ctx.autoConnect # 0
          /\ LET c == [ctx EXCEPT !.autoConnect = 0,
                                  !.requests = Append(@, NewRequest(ctx.autoConnect, 0, <<>>))]
             IN  ctx' = ctxConnectToDevice(c, Len(c.requests))
    /\ lastOp' = "ctxConnectToDevice"
    /\ UNCHANGED nonCtxVars

\* What BluetoothService.connect can return over the adapter's outcomes.
ConnectOutcomes == { BluetoothServiceConnect(results) : results \in [1..maxRetries -> BOOLEAN] }

CtxConnectSettles ==
    /\ \E r \in DOMAIN ctx.requests, connected \in ConnectOutcomes :
         /\ ctx.requests[r].phase = "connecting"
         /\ ctx' = ctxConnectSettles(ctx, r, connected)
    /\ lastOp' = "ctxConnectSettles"
    /\ UNCHANGED nonCtxVars

\* The 1 s retry timeout calls the same connectToDevice again.
CtxRetry ==
    /\ \E r \in DOMAIN ctx.requests :
         /\ ctx.requests[r].phase = "retryArmed"
         /\ ctx.requests[r].attempts < MaxAttempts
         /\ ctx.connectAttempts < MaxAttempts
         /\ ctx' = ctxConnectToDevice(ctx, r)
    /\ lastOp' = "ctxRetry"
    /\ UNCHANGED nonCtxVars

CtxDisconnectDevice ==
    /\ ctx.connectedDevice # 0
    /\ \E disconnected \in BOOLEAN :
         ctx' = disconnectDevice(ctx, disconnected)
    /\ lastOp' = "disconnectDevice"
    /\ UNCHANGED nonCtxVars

CtxStartScan ==
    /\ ctx.initRan
    /\ ctx.scans < MaxCtxScans
    /\ ctx' = [ctxStartScan(ctx) EXCEPT !.scans = @ + 1]
    /\ lastOp' = "ctxStartScan"
    /\ UNCHANGED nonCtxVars

\* BleManagerDiscoverPeripheral: the discovery callback adds the device.
CtxScanResult ==
    /\ ctx.adapterScan
    /\ \E device \in CtxDevices : ctx' = [ctx EXCEPT !.devices = @ \cup {device}]
    /\ lastOp' = "ctxScanResult"
    /\ UNCHANGED nonCtxVars

\* The oldest pending timeout of the provider's startScan fires.
CtxScanTimeout ==
    /\ ctx.scanTimeouts # <<>>
    /\ ctx' = ctxScanTimeout(ctx)
    /\ lastOp' = "ctxScanTimeout"
    /\ UNCHANGED nonCtxVars

\* The timeout BluetoothService.startScan armed fires.
CtxServiceScanTimeout ==
    /\ ctx.serviceTimeout
    /\ ctx' = serviceStopScan(ctx)
    /\ lastOp' = "serviceScanTimeout"
    /\ UNCHANGED nonCtxVars

\* The adapter reports that the link to a peripheral is gone.
CtxLinkLost ==
    /\ \E peripheral \in ctx.links :
         ctx' = onDisconnectPeripheral(ctx, peripheral)
    /\ lastOp' = "linkLost"
    /\ UNCHANGED nonCtxVars

\* The user confirms Forget for one of the saved devices the settings
\* screen lists.
CtxForgetDevice ==
    /\ \E deviceId \in DeviceIds(ctx.savedDevices), disconnected \in BOOLEAN :
         ctx' = forgetDevice(ctx, deviceId, disconnected)
    /\ lastOp' = "forgetDevice"
    /\ UNCHANGED nonCtxVars

\* The process is killed and the app launched again: only the Store survives.
CtxRestart ==
    /\ ctx.restarts < MaxBtRestarts
    /\ ctx' = CtxMounted(ctx.store, ctx.restarts + 1)
    /\ lastOp' = "ctxRestart"
    /\ UNCHANGED nonCtxVars

(* ------------------- the heartbeat of useWebSocket --------------------- *)
\* useWebSocket (part_019) as AppProvider uses it: the connect effect of
\* AppProvider calls the connect of the render that is current, so a socket
\* is built by the connect created in the render after the previous socket
\* closed, and its onopen starts the startPingInterval of that same render.
\* Times are milliseconds; null is 0.  The clock moves by pingInterval.

MaxTicks == 5         \* bound: times the clock advances
MaxOrphans == 2       \* bound: sockets left open and unreferenced

pingInterval == 30000
GraceWindow == 60000

HbMounted ==
    [ now          |-> 1,
      socket       |-> "CONNECTING",  \* readyState of the socket the last connect built
      isConnected  |-> FALSE,
      isConnecting |-> TRUE,
      lastPingTime |-> 0,             \* the state set by startPingInterval and by a pong
      seen         |-> 0,             \* lastPingTime in the render whose connect built the socket
      held         |-> "none",        \* the socket state of that render: none, dead or orphan
      interval     |-> FALSE,         \* pingIntervalRef.current is set
      orphans      |-> 0,             \* open sockets with handlers that connect no longer holds
      pinged       |-> FALSE,         \* history: the last step sent a ping
      forced       |-> FALSE ]        \* history: the last step ran disconnect(); connect()

HbQuiet(h) == [h EXCEPT !.pinged = FALSE, !.forced = FALSE]

HbLive(h) == h.socket \in {"CONNECTING", "OPEN"}

\* The render after a state change and the connect effect of AppProvider,
\* which calls the connect of that render.
hookConnect(h) ==
    IF h.isConnected \/ h.isConnecting
    THEN h
    ELSE [h EXCEPT !.isConnecting = TRUE,
                   !.socket = "CONNECTING",
                   !.orphans = IF HbLive(h) THEN @ + 1 ELSE @,
                   !.held = IF HbLive(h) THEN "orphan"
                            ELSE IF h.socket = "CLOSED" THEN "dead" ELSE "none",
                   !.seen = h.lastPingTime]

\* newSocket.onopen: the state updates and startPingInterval(newSocket).
hookOnOpen(h) ==
    [h EXCEPT !.socket = "OPEN",
              !.isConnected = TRUE,
              !.isConnecting = FALSE,
              !.lastPingTime = h.now,
              !.interval = TRUE]

\* onclose of any socket that still has its handlers.
hookOnClose(h) ==
    [h EXCEPT !.isConnected = FALSE, !.isConnecting = FALSE, !.interval = FALSE]

\* disconnect(); connect() as the interval callback holds them: both of the
\* render that created startPingInterval.
forceReconnect(h) ==
    LET d == IF h.held = "none"
             THEN [h EXCEPT !.interval = FALSE]
             ELSE [h EXCEPT !.interval = FALSE,
                            !.orphans = IF h.held = "orphan" THEN @ - 1 ELSE @,
                            !.held = "dead",
                            !.isConnected = FALSE,
                            !.isConnecting = FALSE]
    IN  [d EXCEPT !.isConnecting = TRUE,
                  !.socket = "CONNECTING",
                  !.orphans = IF HbLive(h) THEN @ + 1 ELSE @,
                  !.forced = TRUE]

\* The setInterval callback of startPingInterval, run at time t.
pingTick(h, t) ==
    IF h.socket # "OPEN"
    THEN [h EXCEPT !.now = t, !.pinged = FALSE, !.forced = FALSE]
    ELSE LET p == [h EXCEPT !.now = t, !.pinged = TRUE, !.forced = FALSE]
         IN  IF h.seen # 0 /\ t - h.seen > GraceWindow
             THEN forceReconnect(p)
             ELSE p

HbInTime(h) == h.now + pingInterval <= 1 + MaxTicks * pingInterval

HbFits(h) == h.orphans <= MaxOrphans

\* The socket opens.
HbSockOpen ==
    /\ hb.socket = "CONNECTING"
    /\ hb' = hookConnect(hookOnOpen(HbQuiet(hb)))
    /\ lastOp' = "hb_onopen"
    /\ UNCHANGED nonHbVars

\* The socket the hook holds closes; the render that follows connects again.
HbSockClose ==
    /\ HbLive(hb)
    /\ hb' = hookConnect(hookOnClose([HbQuiet(hb) EXCEPT !.socket = "CLOSED"]))
    /\ lastOp' = "hb_onclose"
    /\ UNCHANGED nonHbVars

\* A socket the hook no longer holds closes: the one the render's disconnect
\* holds, or another one.
HbOrphanClose ==
    \E heldOne \in BOOLEAN :
        /\ IF heldOne THEN hb.held = "orphan"
                      ELSE hb.orphans > (IF hb.held = "orphan" THEN 1 ELSE 0)
        /\ hb' = hookConnect(hookOnClose([HbQuiet(hb) EXCEPT
                     !.orphans = @ - 1,
                     !.held = IF heldOne THEN "dead" ELSE @]))
        /\ HbFits(hb')
        /\ lastOp' = "hb_orphan_onclose"
        /\ UNCHANGED nonHbVars

\* A pong arrives on the open socket: setLastPingTime(Date.now()).
HbPong ==
    /\ hb.socket = "OPEN"
    /\ hb' = [HbQuiet(hb) EXCEPT !.lastPingTime = hb.now]
    /\ lastOp' = "hb_pong"
    /\ UNCHANGED nonHbVars

\* pingInterval milliseconds pass and the interval callback runs.
HbTick ==
    /\ hb.interval
    /\ HbInTime(hb)
    /\ hb' = pingTick(hb, hb.now + pingInterval)
    /\ HbFits(hb')
    /\ lastOp' = "hb_tick"
    /\ UNCHANGED nonHbVars

\* Time passes while no interval is running.
HbWait ==
    /\ ~hb.interval
    /\ HbInTime(hb)
    /\ hb' = [HbQuiet(hb) EXCEPT !.now = @ + pingInterval]
    /\ lastOp' = "hb_wait"
    /\ UNCHANGED nonHbVars

(* ------------------- the busy flag of AppProvider ---------------------- *)
\* AppProvider of src/full-code.js over the WebSocketService of the same
\* file.  prov holds wsConnected and isProcessingAudio, the number of
\* envelopes in pendingMessages and in the service's messageQueue, the
\* requests the server received on the open session and has not answered
\* (lost when the session closes), and the sendAudioToServer that
\* handleStopRecording holds while it awaits stopRecording().

MaxBusySends == 3     \* bound: recordings the user submits
MaxBusyCloses == 2    \* bound: closes of the session

ProvMounted ==
    [ isConnected       |-> FALSE,   \* WebSocketService.isConnected
      wsConnected       |-> FALSE,
      isProcessingAudio |-> FALSE,
      pendingMessages   |-> 0,
      messageQueue      |-> 0,
      awaiting          |-> 0,
      capture           |-> [active |-> FALSE, wsConnected |-> FALSE],
      submitted         |-> 0,
      closes            |-> 0 ]

\* WebSocketService.send(message)
provServiceSend(p) ==
    IF ~p.isConnected
    THEN [p EXCEPT !.messageQueue = @ + 1]
    ELSE [p EXCEPT !.awaiting = @ + 1]

\* sendAudioToServer of a render whose wsConnected is given.
provSendAudioToServer(p, wsConnected) ==
    LET p1 == [p EXCEPT !.isProcessingAudio = TRUE]
    IN  IF wsConnected
        THEN provServiceSend(p1)
        ELSE [p1 EXCEPT !.pendingMessages = @ + 1, !.isProcessingAudio = FALSE]

\* processPendingMessages of the render that is current.
provProcessPendingMessages(p) ==
    IF ~p.wsConnected \/ p.pendingMessages = 0
    THEN p
    ELSE [provServiceSend([p EXCEPT !.pendingMessages = @ - 1])
              EXCEPT !.isProcessingAudio = TRUE]

\* handleOpen: processMessageQueue, then the onConnect callback.
provHandleOpen(p) ==
    [p EXCEPT !.isConnected = TRUE,
              !.awaiting = @ + p.messageQueue,
              !.messageQueue = 0,
              !.wsConnected = TRUE]

\* handleClose: the onDisconnect callback; what the server had not answered
\* goes with the session.
provHandleClose(p) ==
    [p EXCEPT !.isConnected = FALSE, !.wsConnected = FALSE, !.awaiting = 0]

\* handleWebSocketMessage for an aiResponse or an error message.
provHandleWebSocketMessage(p) == [p EXCEPT !.isProcessingAudio = FALSE]

\* handleStopRecording up to its await of AudioService.stopRecording().
BusyStopRecording ==
    /\ ~prov.capture.active
    /\ prov.submitted < MaxBusySends
    /\ prov' = [prov EXCEPT !.capture = [active |-> TRUE, wsConnected |-> prov.wsConnected]]
    /\ lastOp' = "handleStopRecording"
    /\ UNCHANGED nonProvVars

\* stopRecording() resolves and the held sendAudioToServer runs.
BusySendAudio ==
    /\ prov.capture.active
    /\ prov' = [provSendAudioToServer(prov, prov.capture.wsConnected)
                   EXCEPT !.capture = [active |-> FALSE, wsConnected |-> FALSE],
                          !.submitted = @ + 1]
    /\ lastOp' = "provSendAudio"
    /\ UNCHANGED nonProvVars

\* The replay effect: wsConnected && pendingMessages.length > 0.
BusyReplayEffect ==
    /\ prov.wsConnected
    /\ prov.pendingMessages > 0
    /\ prov' = provProcessPendingMessages(prov)
    /\ lastOp' = "provReplay"
    /\ UNCHANGED nonProvVars

\* The session opens (at launch, or after the service's reconnect).
BusySockOpen ==
    /\ ~prov.isConnected
    /\ prov' = provHandleOpen(prov)
    /\ lastOp' = "provOpen"
    /\ UNCHANGED nonProvVars

\* The session closes.
BusySockClose ==
    /\ prov.isConnected
    /\ prov.closes < MaxBusyCloses
    /\ prov' = [provHandleClose(prov) EXCEPT !.closes = @ + 1]
    /\ lastOp' = "provClose"
    /\ UNCHANGED nonProvVars

\* The server answers one request with an aiResponse or an error message.
BusyServerMessage ==
    /\ prov.isConnected
    /\ prov.awaiting > 0
    /\ prov' = provHandleWebSocketMessage([prov EXCEPT !.awaiting = @ - 1])
    /\ lastOp' = "provMessage"
    /\ UNCHANGED nonProvVars

(* ---------------------------- specifications --------------------------- *)

InitSvc ==
    /\ ws = SvcConstructed
    /\ lastOp = "new"
    /\ hb = HbMounted
    /\ prov = ProvMounted
    /\ failsSinceOpen = 0
    /\ failsBeforeOpen = -1
    /\ graceful = FALSE
    /\ app = AppMounted(<<>>, <<>>, 1, 0)
    /\ hist = HistFresh
    /\ home = HomeMounted
    /\ conv = ConvOpened
    /\ bt = BtMounted(<<>>, 0)
    /\ ctx = CtxMounted(<<>>, 0)

NextSvc ==
    \/ SvcInit
    \/ SvcConnect
    \/ SvcCheckConnection
    \/ SvcSend
    \/ SvcPing
    \/ SvcDisconnect
    \/ SvcTimerFire
    \/ SvcSockOpen
    \/ SvcSockClose

SpecSvc == InitSvc /\ [][NextSvc]_vars

InitApp ==
    /\ app = AppMounted(<<>>, <<>>, 1, 0)
    /\ hist = HistFresh
    /\ lastOp = "mount"
    /\ hb = HbMounted
    /\ prov = ProvMounted
    /\ ws = SvcConstructed
    /\ failsSinceOpen = 0
    /\ failsBeforeOpen = -1
    /\ graceful = FALSE
    /\ home = HomeMounted
    /\ conv = ConvOpened
    /\ bt = BtMounted(<<>>, 0)
    /\ ctx = CtxMounted(<<>>, 0)

NextApp ==
    \/ AppSockOpen
    \/ AppSockClose
    \/ AppRender
    \/ AppReplayEffect
    \/ AppSendText
    \/ AppHandleRecording
    \/ AppSendAudio
    \/ AppLoadPending
    \/ AppStoreWrite
    \/ AppStateChange
    \/ AppRestart

SpecApp == InitApp /\ [][NextApp]_vars

InitHome ==
    /\ home = HomeMounted
    /\ lastOp = "mount"
    /\ hb = HbMounted
    /\ prov = ProvMounted
    /\ ws = SvcConstructed
    /\ failsSinceOpen = 0
    /\ failsBeforeOpen = -1
    /\ graceful = FALSE
    /\ app = AppMounted(<<>>, <<>>, 1, 0)
    /\ hist = HistFresh
    /\ conv = ConvOpened
    /\ bt = BtMounted(<<>>, 0)
    /\ ctx = CtxMounted(<<>>, 0)

NextHome ==
    \/ HomeSessionChange
    \/ HomeAdapterChange
    \/ HomePeripheralChange
    \/ HomeProcessingChange
    \/ HomeSpeakingChange
    \/ HomeSettingsChange
    \/ HomeToggleListening
    \/ HomeRecordButton
    \/ HomeAutoListenTimer

SpecHome == InitHome /\ [][NextHome]_vars

InitConv ==
    /\ conv \in { [ConvOpened EXCEPT !.history = h] : h \in StoredHistories }
    /\ lastOp = "mount"
    /\ hb = HbMounted
    /\ prov = ProvMounted
    /\ ws = SvcConstructed
    /\ failsSinceOpen = 0
    /\ failsBeforeOpen = -1
    /\ graceful = FALSE
    /\ app = AppMounted(<<>>, <<>>, 1, 0)
    /\ hist = HistFresh
    /\ home = HomeMounted
    /\ bt = BtMounted(<<>>, 0)
    /\ ctx = CtxMounted(<<>>, 0)

NextConv ==
    \/ ConvTick
    \/ ConvSendText
    \/ ConvSendAudio
    \/ ConvServerMessage
    \/ ConvLoadHistory
    \/ ConvClear

SpecConv == InitConv /\ [][NextConv]_vars

InitBt ==
    /\ bt = BtMounted(<<>>, 0)
    /\ lastOp = "mount"
    /\ hb = HbMounted
    /\ prov = ProvMounted
    /\ ws = SvcConstructed
    /\ failsSinceOpen = 0
    /\ failsBeforeOpen = -1
    /\ graceful = FALSE
    /\ app = AppMounted(<<>>, <<>>, 1, 0)
    /\ hist = HistFresh
    /\ home = HomeMounted
    /\ conv = ConvOpened
    /\ ctx = CtxMounted(<<>>, 0)

NextBt ==
    \/ BtInitialize
    \/ BtStartScan
    \/ BtScanResult
    \/ BtScanError
    \/ BtScanTimeout
    \/ BtStopScan
    \/ BtConnectToDevice
    \/ BtConnectSettles
    \/ BtDisconnectFromDevice
    \/ BtLoadPreviousDevices
    \/ BtRestart

SpecBt == InitBt /\ [][NextBt]_vars

InitCtx ==
    /\ ctx = CtxMounted(<<>>, 0)
    /\ lastOp = "mount"
    /\ hb = HbMounted
    /\ prov = ProvMounted
    /\ ws = SvcConstructed
    /\ failsSinceOpen = 0
    /\ failsBeforeOpen = -1
    /\ graceful = FALSE
    /\ app = AppMounted(<<>>, <<>>, 1, 0)
    /\ hist = HistFresh
    /\ home = HomeMounted
    /\ conv = ConvOpened
    /\ bt = BtMounted(<<>>, 0)

NextCtx ==
    \/ CtxInitBluetooth
    \/ CtxAutoConnect
    \/ CtxConnectToDevice
    \/ CtxConnectSettles
    \/ CtxRetry
    \/ CtxDisconnectDevice
    \/ CtxLinkLost
    \/ CtxForgetDevice
    \/ CtxRestart

SpecCtx == InitCtx /\ [][NextCtx]_vars

\* The provider with connectToDevice calls that overlap.
NextOverlap ==
    \/ CtxInitBluetooth
    \/ CtxAutoConnect
    \/ CtxConnectToDevice
    \/ CtxOverlappingConnect
    \/ CtxConnectSettles
    \/ CtxRetry
    \/ CtxForgetDevice
    \/ CtxRestart

SpecOverlap == InitCtx /\ [][NextOverlap]_vars

\* The provider's scan next to its connect.
NextScan ==
    \/ CtxInitBluetooth
    \/ CtxStartScan
    \/ CtxScanResult
    \/ CtxScanTimeout
    \/ CtxServiceScanTimeout
    \/ CtxConnectToDevice
    \/ CtxConnectSettles
    \/ CtxRetry
    \/ CtxDisconnectDevice

SpecScan == InitCtx /\ [][NextScan]_vars

InitBusy ==
    /\ prov = ProvMounted
    /\ lastOp = "mount"
    /\ hb = HbMounted
    /\ ws = SvcConstructed
    /\ failsSinceOpen = 0
    /\ failsBeforeOpen = -1
    /\ graceful = FALSE
    /\ app = AppMounted(<<>>, <<>>, 1, 0)
    /\ hist = HistFresh
    /\ home = HomeMounted
    /\ conv = ConvOpened
    /\ bt = BtMounted(<<>>, 0)
    /\ ctx = CtxMounted(<<>>, 0)

NextBusy ==
    \/ BusyStopRecording
    \/ BusySendAudio
    \/ BusyReplayEffect
    \/ BusySockOpen
    \/ BusySockClose
    \/ BusyServerMessage

SpecBusy == InitBusy /\ [][NextBusy]_vars

\* The service reconnects, stopRecording() resolves, the replay effect runs
\* and the server answers what it received: none of them waits for ever.
SpecBusyLive ==
    /\ SpecBusy
    /\ WF_vars(BusySockOpen)
    /\ WF_vars(BusySendAudio)
    /\ WF_vars(BusyReplayEffect)
    /\ WF_vars(BusyServerMessage)

(* --------------------- the history of peripherals ---------------------- *)
\* The two device lists on their own: previousDevices of the hook
\* (src/hooks/useBluetooth.js) and savedDevices of the provider
\* (src/context/BluetoothContext.js), each started from a list that n
\* successful connects to n devices leave behind.

MaxHistConnects == 2    \* bound: connects of the provider in one behaviour

HistoryDevices == 1..(MaxHistory + 1)

\* previousDevices after the hook connected devices 1..n in turn.
HookHistory(n) == [ i \in 1..n |-> n + 1 - i ]

\* savedDevices after the provider connected devices 1..n in turn.
ProviderHistory(n) == [ i \in 1..n |-> [ id |-> i, lastConnected |-> i = n ] ]

\* The hook after initialize(), a scan that reported every device and timed
\* out, and connects to devices 1..n.
HookWithHistory(n) ==
    [BtMounted(<<>>, 0) EXCEPT
         !.isBluetoothEnabled = TRUE,
         !.isInitialized = TRUE,
         !.initializeRan = TRUE,
         !.discoveredDevices = HistoryDevices,
         !.previousDevices = HookHistory(n),
         !.store = HookHistory(n),
         !.connectedDevice = n,
         !.connectionState = IF n > 0 THEN "CONNECTED" ELSE "DISCONNECTED",
         !.connected = n > 0]

\* The provider launched over a Store that holds the list of n connects,
\* after initBluetooth found the adapter off.
ProviderWithHistory(n) == initBluetooth(CtxMounted(ProviderHistory(n), 1), FALSE, FALSE)

\* connectToDevice(deviceId) of the hook, to its successful end.
HistHookConnect ==
    /\ bt.isInitialized
    /\ bt.settled = 0
    /\ \E device \in HistoryDevices :
         LET b == connectToDevice(bt, bt, device)
         IN  bt' = savePreviousDevices(bt,
                      connectSettles([b EXCEPT !.connecting = @ \ {device}], device, TRUE))
    /\ lastOp' = "connectSettles"
    /\ UNCHANGED nonBtVars

\* connectToDevice(device) of the provider, to its successful end.
HistCtxConnect ==
    /\ ctx.initRan
    /\ ctx.requests = <<>>
    /\ ctx.connectAttempts < MaxHistConnects
    /\ \E device \in HistoryDevices :
         LET c == [ctx EXCEPT !.requests =
                      <<NewRequest(device, ctx.connectAttempts, ctx.savedDevices)>>]
         IN  ctx' = ctxConnectSettles(ctxConnectToDevice(c, 1), 1, TRUE)
    /\ lastOp' = "ctxConnectSettles"
    /\ UNCHANGED nonCtxVars

InitHistory ==
    /\ \E n \in 0..MaxHistory :
         \/ bt = HookWithHistory(n) /\ ctx = CtxMounted(<<>>, 0)
         \/ bt = BtMounted(<<>>, 0) /\ ctx = ProviderWithHistory(n)
    /\ lastOp = "mount"
    /\ hb = HbMounted
    /\ prov = ProvMounted
    /\ ws = SvcConstructed
    /\ failsSinceOpen = 0
    /\ failsBeforeOpen = -1
    /\ graceful = FALSE
    /\ app = AppMounted(<<>>, <<>>, 1, 0)
    /\ hist = HistFresh
    /\ home = HomeMounted
    /\ conv = ConvOpened

NextHistory ==
    \/ HistHookConnect
    \/ HistCtxConnect
    \/ CtxForgetDevice

SpecHistory == InitHistory /\ [][NextHistory]_vars

InitHb ==
    /\ hb = HbMounted
    /\ prov = ProvMounted
    /\ lastOp = "hb_mount"
    /\ ws = SvcConstructed
    /\ failsSinceOpen = 0
    /\ failsBeforeOpen = -1
    /\ graceful = FALSE
    /\ app = AppMounted(<<>>, <<>>, 1, 0)
    /\ hist = HistFresh
    /\ home = HomeMounted
    /\ conv = ConvOpened
    /\ bt = BtMounted(<<>>, 0)
    /\ ctx = CtxMounted(<<>>, 0)

NextHb ==
    \/ HbSockOpen
    \/ HbSockClose
    \/ HbOrphanClose
    \/ HbPong
    \/ HbTick
    \/ HbWait

SpecHb == InitHb /\ [][NextHb]_vars

(* ------------------------- claims on SpecApp --------------------------- *)

\* C1: before any restart, every envelope given to sendTextToServer or
\* sendAudioToServer after the load effect had finished has been handed to
\* socket.send or is in pendingMessages.
C1_NoSilentLoss ==
    app.restarts = 0 =>
        \A e \in hist.accepted \ hist.early :
            e \in Range(app.sent) \/ e \in Range(app.pendingMessages)

\* C2: when the load effect of a restarted app has set pendingMessages, every
\* envelope that was queued and persisted when the process stopped is in
\* pendingMessages exactly once.
C2_NoLossAcrossRestart ==
    (lastOp = "load" /\ app.restarts >= 1) =>
        \A e \in hist.atStop : Occurrences(app.pendingMessages, e) = 1

\* C3: when the sendMessage call of a replay step returned false, the envelope
\* of that step is still in pendingMessages after the step.
C3_RemovedOnlyAfterSendOk ==
    (lastOp = "replay" /\ ~hist.lastSend.ok) =>
        hist.lastSend.env \in Range(app.pendingMessages)

IsInOrder(log, order) ==
    \A i, j \in DOMAIN log :
        i < j => \E k, l \in DOMAIN order : k <= l /\ order[k] = log[i] /\ order[l] = log[j]

NoDuplicates(log) == \A i, j \in DOMAIN log : log[i] = log[j] => i = j

\* C4: while every sendMessage call of the replay has returned true, the replay
\* hands the envelopes to the socket in the order they were queued and hands no
\* envelope twice.
C4_FifoReplay ==
    hist.replayOk => IsInOrder(hist.replayLog, hist.enqLog) /\ NoDuplicates(hist.replayLog)

\* C5: right after sendTextToServer or sendAudioToServer, the envelope is in
\* pendingMessages exactly when the call saw wsConnected = false or its
\* sendMessage returned false.
C5_QueuedIffNotSent ==
    lastOp \in {"sendText", "sendAudio"} =>
        (hist.lastSend.env \in Range(app.pendingMessages)
            <=> (~hist.lastSend.wsConnected \/ ~hist.lastSend.ok))

\* Envelopes appended to the queue before the last open event.
EnqueuedBeforeOpen == { hist.enqLog[i] : i \in 1..hist.openMark }

\* C23: every envelope enqueued before a session-open event is handed to the
\* transport before any envelope the user submits after that event during
\* the same open session: when a submission is handed to socket.send, the
\* envelopes queued before the open have all been handed to it already.
C23_ReplayBeforeNewSubmissions ==
    [][ (lastOp' \in {"sendText", "sendAudio"} /\ Len(app'.sent) > Len(app.sent))
            => EnqueuedBeforeOpen \subseteq Range(app.sent) ]_vars

IsBackoffDelay(d, n) ==
    IF InitialReconnectDelay * Pow(3, n - 1) <= MaxReconnectDelay * Pow(2, n - 1)
    THEN d * Pow(2, n - 1) = InitialReconnectDelay * Pow(3, n - 1)
    ELSE d = MaxReconnectDelay

\* The delay the backoff rule gives for the n-th consecutive failure.
BackoffDelayOf(n) ==
    CHOOSE d \in {(InitialReconnectDelay * Pow(3, n - 1)) \div Pow(2, n - 1), MaxReconnectDelay} :
        IsBackoffDelay(d, n)

\* C6: after the n-th consecutive non-graceful close (n = 1 .. maxReconnectAttempts)
\* the delay scheduleReconnect armed is min(2000 * 1.5^(n-1), 30000), and it is not
\* smaller than the delay of the (n-1)-th.
C6_BackoffDelay ==
    failsSinceOpen \in 1..maxReconnectAttempts =>
        /\ IsBackoffDelay(ws.armedDelay, failsSinceOpen)
        /\ ws.reconnectAttempts = failsSinceOpen
        /\ \A k \in 1..(failsSinceOpen - 1) :
               BackoffDelayOf(k) <= ws.armedDelay

\* The fifth consecutive failure armed 10125 ms.
C6_Witness ==
    /\ failsSinceOpen = maxReconnectAttempts
    /\ ws.reconnectTimeout = "pending"
    /\ ws.armedDelay = 10125

\* C7: after a handleOpen, whatever number of failures preceded it, the first
\* non-graceful close arms a reconnect after delay(1) = 2000 ms.
C7_ResetOnSuccess ==
    (failsBeforeOpen >= 0 /\ failsSinceOpen = 1) =>
        /\ ws.armedDelay = InitialReconnectDelay
        /\ ws.reconnectAttempts = 1

\* Three failures, then an open, then the first failure after it.
C7_Witness ==
    /\ failsBeforeOpen = 3
    /\ failsSinceOpen = 1
    /\ lastOp = "onclose"
    /\ ws.reconnectTimeout = "pending"
    /\ ws.armedDelay = InitialReconnectDelay

C9_GracefulCloseStaysClosed ==
    graceful => (ws.timers = 0 /\ ws.socket = "null" /\ ~ws.isConnecting)

\* Transports of the service that are connecting or open.
ConnectingTransports(w) ==
    (IF w.socket = "CONNECTING" THEN 1 ELSE 0) + w.orphans["CONNECTING"]
OpenTransports(w) ==
    (IF w.socket = "OPEN" THEN 1 ELSE 0) + w.orphans["OPEN"]

\* C10: at most one transport of the service is connecting or open, and
\* isConnected / isConnecting say which of the two it is.
C10_OneLiveTransport ==
    /\ ConnectingTransports(ws) + OpenTransports(ws) <= 1
    /\ ws.isConnected <=> (OpenTransports(ws) = 1)
    /\ ws.isConnecting <=> (ConnectingTransports(ws) = 1)

\* C14: a send() made while the service is not connected returns false, hands
\* nothing to socket.send, and leaves the message in the service's queue.
C14_SendNotOpenReturnsFalse ==
    [][ (lastOp' = "send" /\ ~ws.isConnected) =>
            /\ ~sendReturns(ws)
            /\ ws'.sent = ws.sent
            /\ Len(ws'.messageQueue) = Len(ws.messageQueue) + 1 ]_vars

\* A send() was made while a socket was still connecting.
C14_Witness ==
    /\ lastOp = "send"
    /\ ~ws.isConnected
    /\ ws.socket = "CONNECTING"
    /\ ws.messageQueue # <<>>
    /\ ws.sent = <<>>

\* The session is closed: no socket, no flags, no reconnect timeout, no ping.
SessionClosed(w) ==
    /\ w.socket = "null"
    /\ ~w.isConnected
    /\ ~w.isConnecting
    /\ w.reconnectTimeout = "null"
    /\ ~w.pingInterval

\* C15: in every state disconnect() completes and leaves the session closed, and
\* on a session that is already closed it changes nothing.
C15_DisconnectSafe ==
    [][ lastOp' = "disconnect" =>
            /\ SessionClosed(ws')
            /\ SessionClosed(ws) => ws' = ws ]_vars

\* disconnect() ran on a session that had failed and scheduled a reconnect.
C15_Witness ==
    /\ lastOp = "disconnect"
    /\ SessionClosed(ws)
    /\ failsSinceOpen >= 2
    /\ ws.reconnectAttempts >= 2
    /\ ws.timers = 0

\* C22: the session manager stops trying to reconnect only after an explicit
\* disconnect(): while disconnect() has not been called, every non-graceful
\* close is followed by a scheduled reconnect attempt (handleClose leaves the
\* manager neither open nor connecting, so a reconnect timeout is pending).
C22_ReconnectUntilDisconnect ==
    [][ (lastOp' = "onclose" /\ failsSinceOpen' > failsSinceOpen /\ ~graceful)
            => ws'.reconnectTimeout = "pending" ]_vars

\* C24: a message for which send() returned false is never transmitted
\* later by the session manager on its own initiative: the transmitted
\* messages change only inside a send call (ping() calls send), by the one
\* message of that call, and only when that send returns true.
C24_RejectedNeverTransmitted ==
    [][ ws'.sent # ws.sent =>
          /\ lastOp' \in {"send", "ping"}
          /\ sendReturns(ws)
          /\ Len(ws'.sent) = Len(ws.sent) + 1
          /\ SubSeq(ws'.sent, 1, Len(ws.sent)) = ws.sent ]_vars

\* C25: at most one reconnect timer is pending at any time in the session
\* manager, after any sequence of close events, connect calls and timer
\* firings.
C25_OneReconnectTimer == ws.timers <= 1

\* A close event re-armed the reconnect timeout for the third attempt in a
\* row and one timeout is pending.
C25_Witness ==
    /\ lastOp = "onclose"
    /\ ws.reconnectAttempts = 3
    /\ ws.reconnectTimeout = "pending"
    /\ ws.timers = 1

\* C26: a connect() or checkConnection() call made while a reconnect timer
\* is pending cancels that timer and starts a connection attempt at once: no
\* timeout is pending after the call and the manager is connecting.
C26_ConnectCancelsTimer ==
    [][ (lastOp' \in {"connect", "checkConnection"} /\ ws.reconnectTimeout = "pending")
            => /\ ws'.timers = 0
               /\ ws'.isConnecting \/ ws'.isConnected ]_vars

\* C27: for every transport-level open the session becomes Open and the
\* onConnect callback fires exactly once, also when messages wait in the
\* messageQueue at the open and one of their transmissions fails.
C27_OpenCallsBackOnce ==
    [][ lastOp' = "onopen" =>
          \E cur \in BOOLEAN :
              /\ CanOpen(ws, cur)
              /\ ws' = handleOpen(Opened(ws, cur))
              /\ ws'.isConnected
              /\ handleOpenCallsBack(Opened(ws, cur)) ]_vars

(* -------------------------- claims on SpecCtx -------------------------- *)

\* The most attempts one request makes when connectAttempts counts them
\* from 0 and the retry test is connectAttempts < ConnectAttemptsLimit.
ConnectCeiling == ConnectAttemptsLimit + 1

\* C16: peripheral connect terminates under persistent failure: one connect
\* request makes at most a fixed number of connection attempts, after which
\* connectToDevice stops retrying; no request retries without end.
C16_ConnectAttemptsBounded ==
    \A r \in DOMAIN ctx.requests : ctx.requests[r].attempts <= ConnectCeiling

\* C21: forgetDevice(id): if the connected peripheral is id it is
\* disconnected first; afterwards the history has no record with that id and
\* every other record is unchanged and in the same order.
C21_ForgetDevice ==
    [][ lastOp' = "forgetDevice" =>
          \E id \in DeviceIds(ctx.savedDevices) :
              /\ ctx.connectedDevice = id => ctx'.connectedDevice = 0
              /\ ctx'.savedDevices = SelectSeq(ctx.savedDevices, LAMBDA x : x.id # id)
      ]_vars

\* C31: at most one scan-timeout timer is pending at a time, so that a
\* timeout armed by an earlier startScan never fires during a later scan.
C31_OneScanTimeout == Len(ctx.scanTimeouts) <= 1

\* C32: at most one peripheral is connected at a time: the peripheral
\* manager (BluetoothService.connectedDevices) never holds two links, also
\* after a connect to a second peripheral while one is connected.
C32_OneLink == Cardinality(ctx.links) <= 1

\* C33: when the link to the connected peripheral is lost, or disconnect is
\* called, the peripheral state becomes disconnected and the connected-device
\* reference is cleared, while the persisted history is left unchanged.
C33_DisconnectClears ==
    [][ ( /\ lastOp' \in {"linkLost", "disconnectDevice"}
          /\ ctx.connectedDevice \in ctx.links
          /\ ctx.connectedDevice \notin ctx'.links )
            => /\ ctx'.connectionState = "disconnected"
               /\ ctx'.connectedDevice = 0
               /\ ctx'.savedDevices = ctx.savedDevices
               /\ ctx'.store = ctx.store ]_vars

\* C39: connectionState is 'connected' exactly when connectedDevice is
\* non-null, in every reachable state.
C39_ConnectedIffDevice ==
    ctx.connectionState = "connected" <=> ctx.connectedDevice # 0

\* The records of the list that carry lastConnected = true.
LastConnectedRecords(devices) == { i \in DOMAIN devices : devices[i].lastConnected }

\* C34: in every reachable state at most one saved device record carries
\* lastConnected = true, also when two connectToDevice calls or a connect
\* and a forgetDevice overlap.
C34_OneLastConnected ==
    /\ Cardinality(LastConnectedRecords(ctx.savedDevices)) <= 1
    /\ Cardinality(LastConnectedRecords(ctx.store)) <= 1

\* A connect has just succeeded and marked its device in a list that holds
\* another record, while a second connectToDevice, for the other device, is
\* still awaiting the adapter.
C34_Witness ==
    /\ lastOp = "ctxConnectSettles"
    /\ ctx.connectedDevice # 0
    /\ Len(ctx.savedDevices) = 2
    /\ Cardinality(LastConnectedRecords(ctx.savedDevices)) = 1
    /\ \E r \in DOMAIN ctx.requests :
          /\ ctx.requests[r].phase = "connecting"
          /\ ctx.requests[r].device # ctx.connectedDevice

(* --------------------------- claims on SpecBt -------------------------- *)

C18_ScanStopsAfterWindow ==
    (lastOp = "scanTimeout" /\ bt.scanTimeouts = <<>>)
        => (~bt.isScanning /\ ~bt.adapterScanning)

\* C19: auto-reconnect on launch: when the app starts with a non-empty
\* persisted history and the adapter reports powered-on, a connection
\* attempt for the most recent record has been issued to the adapter once
\* the load effect that initialization triggers has continued (no connect
\* has succeeded yet in this run, so the Store is as it was at launch).
C19_AutoReconnectOnLaunch ==
    (lastOp = "loadPreviousDevices" /\ bt.isBluetoothEnabled /\ ~bt.connected
        /\ bt.launchStore # <<>>)
        => bt.launchAttempt

\* C20: the peripheral history is durable across restarts: the records the
\* Store held at launch are in the in-memory history once the hook is
\* initialized, and they are still in memory and in the Store after a
\* connect has succeeded in this run.
C20_HistoryDurable ==
    /\ bt.isInitialized => Range(bt.launchStore) \subseteq Range(bt.previousDevices)
    /\ bt.connected => /\ Range(bt.launchStore) \subseteq Range(bt.previousDevices)
                       /\ Range(bt.launchStore) \subseteq Range(bt.store)

\* C35: the peripheral history never holds more than 10 records and never
\* holds two records with the same peripheral id, after any sequence of
\* successful connects and forgets, in the hook's previousDevices and in
\* the provider's savedDevices.
C35_HistoryBounded ==
    /\ Len(bt.previousDevices) <= MaxHistory
    /\ Cardinality(Range(bt.previousDevices)) = Len(bt.previousDevices)
    /\ Len(ctx.savedDevices) <= MaxHistory
    /\ Cardinality(DeviceIds(ctx.savedDevices)) = Len(ctx.savedDevices)

\* C37: the busy flag always clears: whenever sendAudioToServer or
\* processPendingMessages sets isProcessingAudio to true, it eventually
\* returns to false, also when the session closes before any aiResponse or
\* error message for that request arrives.
C37_BusyClears == prov.isProcessingAudio ~> ~prov.isProcessingAudio

\* C38: after the user explicitly disconnects the peripheral, no connection
\* attempt is started until a new user connect request or a new launch: the
\* step that follows disconnectFromDevice hands no device to the adapter
\* unless it is a connectToDevice of the user or a restart.
C38_NoAttemptAfterDisconnect ==
    [][ ( /\ lastOp = "disconnectFromDevice"
          /\ lastOp' \notin {"connectToDevice", "restart"} )
            => bt'.connecting \subseteq bt.connecting ]_vars

\* C36: an envelope appended to pendingMessages concurrently with a replay
\* step is never dropped: when a send from a closure captured while the
\* session was closed has appended to the queue and processPendingMessages
\* then writes back the remainder of the queue it captured, the appended
\* envelope is still in the queue afterwards.
C36_ConcurrentAppendKept ==
    [][ (lastOp' = "replay" /\ app.unseen > 0)
            => \A i \in (Len(app.pendingMessages) - app.unseen + 1)..Len(app.pendingMessages) :
                   app.pendingMessages[i] \in Range(app'.pendingMessages) ]_vars

(* -------------------------- claims on SpecHb --------------------------- *)

\* C29: while the session is open a ping is sent on every heartbeat tick,
\* and the tick forces a close and reconnect exactly when no pong has been
\* received for longer than the grace window (counted from the open of the
\* session or the last pong): never while pongs arrive within the window.
C29_Heartbeat ==
    [][ (lastOp' = "hb_tick" /\ hb.socket = "OPEN")
            => /\ hb'.pinged
               /\ hb'.forced <=> (hb'.now - hb.lastPingTime > GraceWindow) ]_vars

(* ------------------------- claims on SpecHome -------------------------- *)

\* C11: whenever the auto-listen timeout has started a recording, at that moment
\* the session was open, a peripheral was connected, and the app was neither
\* recording nor processing nor speaking.
C11_AutoListenGated ==
    home.autoStart.fired =>
        /\ home.autoStart.wsConnected
        /\ home.autoStart.connectedDevice
        /\ ~home.autoStart.capturing
        /\ ~home.autoStart.isProcessingAudio
        /\ ~home.autoStart.isSpeaking

(* ------------------------- claims on SpecConv -------------------------- *)

\* C12: no two entries of the conversation have the same id.
C12_UniqueMessageIds ==
    \A i, j \in DOMAIN conv.messages :
        conv.messages[i].id = conv.messages[j].id => i = j

\* C13: after an aiResponse that carries a messageId m and a transcription, the
\* conversation is the previous one with the text of the user entry whose id is
\* m replaced and every other entry unchanged, followed by one assistant entry.
C13_TranscriptionInPlace ==
    (lastOp = "aiResponse" /\ conv.last.transcription /\ conv.last.messageId # 0) =>
        /\ Len(conv.messages) = Len(conv.last.before) + 1
        /\ ~conv.messages[Len(conv.messages)].isUser
        /\ \A i \in DOMAIN conv.last.before :
               conv.messages[i] =
                   IF conv.last.before[i].id = conv.last.messageId /\ conv.last.before[i].isUser
                   THEN [conv.last.before[i] EXCEPT !.text = "server transcription"]
                   ELSE conv.last.before[i]

\* A conversation entry without its text.
Entry(m) == [id |-> m.id, isUser |-> m.isUser, type |-> m.type]

\* C30: the conversation is append-only: in every step other than
\* clearConversation each entry present before the step is still present
\* after it, at its place, with at most its text changed; this includes the
\* load of the stored history.
C30_AppendOnly ==
    [][ lastOp' # "clearConversation" =>
          /\ Len(conv'.messages) >= Len(conv.messages)
          /\ \A i \in DOMAIN conv.messages :
                 Entry(conv'.messages[i]) = Entry(conv.messages[i]) ]_vars

====
